---------------------------- MODULE Spec2Model ----------------------------
(***************************************************************************)
(* Model of the fashion-product-scraper extraction engine.                 *)
(*                                                                         *)
(*  SpecHeal : SelfHealer.heal, its four stages, and the LLMClient call    *)
(*             protocol (budget, primary provider, fallback provider) for  *)
(*             the two LLMClient instances a run creates (SelfHealer's and *)
(*             VisionAnalyzer's).                                          *)
(*  Spec     : FashionTeeAgent.run, AgentOrchestrator.scrapeSite with its  *)
(*             per-site timeout race, _scrapeSiteInternal, the shutdown    *)
(*             signal handler and AgentOrchestrator.shutdown.              *)
(***************************************************************************)
EXTENDS Integers, Sequences, FiniteSets, TLC

\* ------------------------------------------------------------------ bounds
\* largest number of products an extraction step yields in the model
MaxProducts == 1
\* number of heal() calls one run of SpecHeal makes
MaxHeals == 2
\* number of screenshot analyses one run of SpecHeal makes
MaxVision == 2
\* configured options.maxCallsPerRun of every LLMClient of the run
MaxCallsPerRun == 2

\* a stage function that threw
THROWN == -1

NoCall == [pc |-> "none"]

VARIABLES
  \* ---- LLMClient / SelfHealer group
  llmConfig,      \* config.llm: keys present, provider names
  callCount,      \* LLMClient.callCount, one per client instance
  call,           \* the LLM call in flight (complete / analyzeImage)
  contacts,       \* provider requests issued, per client (history)
  hPc,            \* position of heal(): idle, running, awaitLLM, returned, threw
  hStage,         \* index into heal's strategies array
  hInvoked,       \* names of the stages invoked by the current heal call
  hOutcomes,      \* what each invoked stage did: "throw", "empty", "products"
  hResult,        \* value heal returned
  healCalls,      \* heal() calls made so far
  visionCalls,    \* analyzeScreenshot() calls made so far
  \* ---- run / orchestrator group
  runPc,          \* position of FashionTeeAgent.run
  siteIdx,        \* i of run's for loop over enabledSites
  catIdx,         \* position of processSite's loop over site.categories
  started,        \* scrapeSite calls made so far (the last one is the current)
  calls,          \* per scrapeSite call: state of the promise it returned
  flows,          \* per scrapeSite call: position of its _scrapeSiteInternal
  elapsed,        \* time since the current scrapeSite call was made
  catErrors,      \* calls whose category got an entry in stats...errors
  patterns,       \* PatternLearner.patterns, per site
  sites,          \* sitesConfig.sites: the registry of enabled sites
  sbConfigured,   \* ScrapingBeeClient.isConfigured()
  browserOpen,    \* BrowserManager.browser is set and connected
  pages,          \* BrowserManager.pages: the flows holding a pooled page
  isShuttingDown, \* AgentOrchestrator.isShuttingDown
  sd,             \* per caller of AgentOrchestrator.shutdown: its position
  sdLog,          \* savePatterns / browser close performed by shutdown, in order
  shuttingDown,   \* the signal handler's flag
  exited,         \* process.exit was called
  \* ---- PatternLearner / StrategySelector / PatternStore on their own
  lMode,          \* which store is driven: "learner" or "store"
  lPc,            \* "new" before loadPatterns / load, then "ready", then "closed"
  lFile,          \* learned_patterns.json
  lPatterns,      \* PatternLearner.patterns
  lFailures,      \* recordFailure calls that found a pattern, per site (history)
  lOps,           \* operations performed so far
  lLast,          \* the last operation and what it returned
  lThrew,         \* an operation threw to its caller
  psData,         \* PatternStore.data
  psMain,         \* store.json
  psBackup,       \* store.json.backup
  \* ---- ProductValidator and the extractors' dedup on their own
  rMode,          \* the function driven: "validate", "dedup", "fuzzy", "heal", "hybrid"
  rPc,            \* "input", then the position reached in the function
  rIn,            \* what was handed in: a batch, the anchors of a page, two names, an extraction
  rOut,           \* what the function returned, or its record of calls so far
  rBranch,        \* the site branch of the extractor's page script
  \* ---- BrowserManager's page pool and CronManager on their own
  svcMode,        \* which service is driven: "pool" or "cron"
  bmPc,           \* per caller of newPage / closePage: its position
  bmWaited,       \* per caller: polls of waitForAvailablePage that found the pool full
  bmPages,        \* BrowserManager.pages: the callers whose page is in the map
  isRunning,      \* CronManager.isRunning
  cronPc,         \* per trigger (cron tick or runNow): position of its runScraper
  lastRunResult   \* CronManager.lastRunResult

healVars == <<llmConfig, callCount, call, contacts, hPc, hStage, hInvoked,
              hOutcomes, hResult, healCalls, visionCalls>>

runVars == <<runPc, siteIdx, catIdx, started, calls, flows, elapsed, catErrors,
             patterns, sites, sbConfigured, browserOpen, pages, isShuttingDown,
             sd, sdLog, shuttingDown, exited>>

learnVars == <<lMode, lPc, lFile, lPatterns, lFailures, lOps, lLast, lThrew,
               psData, psMain, psBackup>>

vars == <<llmConfig, callCount, call, contacts, hPc, hStage, hInvoked,
          hOutcomes, hResult, healCalls, visionCalls,
          runPc, siteIdx, catIdx, started, calls, flows, elapsed, catErrors,
          patterns, sites, sbConfigured, browserOpen, pages, isShuttingDown,
          sd, sdLog, shuttingDown, exited,
          lMode, lPc, lFile, lPatterns, lFailures, lOps, lLast, lThrew,
          psData, psMain, psBackup,
          rMode, rPc, rIn, rOut, rBranch,
          svcMode, bmPc, bmWaited, bmPages, isRunning, cronPc, lastRunResult>>

svcVars == <<svcMode, bmPc, bmWaited, bmPages, isRunning, cronPc, lastRunResult>>

recVars == <<rMode, rPc, rIn, rOut, rBranch>>

\* ------------------------------------------------------------ LLMClient
\* The run holds several LLMClient instances: SelfHealer builds its own
\* (options.llm is never passed) and so does every VisionAnalyzer.
Clients == {"healer", "vision"}

ProviderNames == {"openai", "anthropic"}

\* configurations under which the LLMClient constructor does not throw
LLMConfigs ==
  { c \in [openaiKey : BOOLEAN, anthropicKey : BOOLEAN,
           provider : ProviderNames, fallbackProvider : ProviderNames] :
      c.openaiKey \/ c.anthropicKey }

\* this.providers after the two guarded constructions
providers(c) ==
  (IF c.openaiKey THEN {"openai"} ELSE {}) \cup
  (IF c.anthropicKey THEN {"anthropic"} ELSE {})

\* this.primaryProvider: the configured one, else openai, else anthropic
primaryProvider(c) ==
  IF c.provider \in providers(c) THEN c.provider
  ELSE IF "openai" \in providers(c) THEN "openai" ELSE "anthropic"

\* this.fallbackProvider: the configured one if available and not the primary
fallbackProvider(c) ==
  IF c.fallbackProvider \in providers(c) /\ c.fallbackProvider # primaryProvider(c)
  THEN c.fallbackProvider ELSE "null"

\* guard at the top of complete / analyzeImage
BudgetReached(count) == count >= MaxCallsPerRun

\* catch branch of complete / analyzeImage: is the fallback provider tried?
TriesFallbackEvenOnSuccess(primaryOk, c) == fallbackProvider(c) # "null"
TriesFallback(primaryOk, c) == ~primaryOk /\ fallbackProvider(c) # "null"

\* complete(options) / analyzeImage(options) up to the first await:
\* budget check, callCount++, request to the primary provider
CallBegin(client, kind, owner) ==
  IF BudgetReached(callCount[client])
  THEN /\ call' = [pc |-> "done", client |-> client, kind |-> kind, owner |-> owner,
                   primary |-> "none", fallbacks |-> 0, requests |-> 0,
                   outcome |-> "rejected", why |-> "budget"]
       /\ UNCHANGED <<callCount, contacts>>
  ELSE /\ callCount' = [callCount EXCEPT ![client] = @ + 1]
       /\ contacts' = [contacts EXCEPT ![client] = @ + 1]
       /\ call' = [pc |-> "primary", client |-> client, kind |-> kind, owner |-> owner,
                   primary |-> "pending", fallbacks |-> 0, requests |-> 1,
                   outcome |-> "pending", why |-> "none"]

\* withTimeout(primaryProvider.x(options)) settles: a reply, or an error /
\* the timeout (both reject the race)
PrimarySettles(ok) ==
  /\ call.pc = "primary"
  /\ IF TriesFallback(ok, llmConfig)
     THEN /\ call' = [call EXCEPT !.pc = "fallback",
                                  !.primary = IF ok THEN "ok" ELSE "failed",
                                  !.fallbacks = @ + 1,
                                  !.requests = @ + 1]
          /\ contacts' = [contacts EXCEPT ![call.client] = @ + 1]
     ELSE /\ call' = [call EXCEPT !.pc = "done",
                                  !.primary = IF ok THEN "ok" ELSE "failed",
                                  !.outcome = IF ok THEN "resolved" ELSE "rejected",
                                  !.why = IF ok THEN "none" ELSE "primary"]
          /\ UNCHANGED contacts
  /\ UNCHANGED <<llmConfig, callCount, hPc, hStage, hInvoked, hOutcomes, hResult,
                 healCalls, visionCalls>>
  /\ UNCHANGED runVars /\ UNCHANGED learnVars /\ UNCHANGED recVars /\ UNCHANGED svcVars

\* withTimeout(fallbackProvider.x(options)) settles
FallbackSettles(ok) ==
  /\ call.pc = "fallback"
  /\ call' = [call EXCEPT !.pc = "done",
                          !.outcome = IF ok THEN "resolved" ELSE "rejected",
                          !.why = IF ok THEN "none" ELSE "fallback"]
  /\ UNCHANGED <<llmConfig, callCount, contacts, hPc, hStage, hInvoked, hOutcomes,
                 hResult, healCalls, visionCalls>>
  /\ UNCHANGED runVars /\ UNCHANGED learnVars /\ UNCHANGED recVars /\ UNCHANGED svcVars

\* ------------------------------------------------------------ SelfHealer
StageOrder == <<"alternative-selectors", "semantic-html", "schema-org", "llm-extraction">>

Throw == [throw |-> TRUE, success |-> FALSE, products |-> 0]
Ret(s, n) == [throw |-> FALSE, success |-> s, products |-> n]

\* the overall-failure value of heal
HealFailure == [success |-> FALSE, products |-> 0]
NoResult == [success |-> FALSE, products |-> -1]

\* tryAlternativeSelectors: the two selector patterns in turn; p1, p2 are the
\* numbers of valid products each pattern extracts (THROWN: extractWithPatterns
\* rejected); the first pattern with a valid product wins
tryAlternativeSelectors(p1, p2) ==
  IF p1 = THROWN THEN Throw
  ELSE IF p1 > 0 THEN Ret(TRUE, p1)
  ELSE IF p2 = THROWN THEN Throw
  ELSE IF p2 > 0 THEN Ret(TRUE, p2)
  ELSE Ret(FALSE, 0)

\* trySemanticExtraction: n microdata items with a name (THROWN: evaluate rejected)
trySemanticExtraction(n) ==
  IF n = THROWN THEN Throw ELSE Ret(n > 0, n)

\* trySchemaOrgExtraction: n JSON-LD Product entities (THROWN: evaluate rejected)
trySchemaOrgExtraction(n) ==
  IF n = THROWN THEN Throw ELSE Ret(n > 0, n)

\* replies of the model as tryLLMExtraction reads them
Replies == {"nomatch", "badjson", "notarray", "array"}

\* tryLLMExtraction after llm.complete settled: a rejected call is caught
\* locally; a reply is searched for a JSON array of n well-formed products
tryLLMExtraction(outcome, reply, n) ==
  IF outcome = "rejected" THEN Ret(FALSE, 0)
  ELSE IF reply # "array" THEN Ret(FALSE, 0)
  ELSE Ret(n > 0, n)

\* heal's test on a stage result
StageSucceeded(r) == r.success /\ r.products > 0

\* heal's try/catch around each stage
CatchesStageErrorNot(r) == FALSE
CatchesStageError(r) == TRUE

\* heal's loop moves to the next entry of strategies
NextStageSkip(i) == i + 2
NextStage(i) == i + 1

\* what a stage did, as seen from outside heal
Outcome(r) ==
  IF r.throw THEN "throw"
  ELSE IF r.success /\ r.products > 0 THEN "products" ELSE "empty"

\* body of heal's for loop once stage hStage has settled with r
StageSettled(r) ==
  /\ hOutcomes' = Append(hOutcomes, Outcome(r))
  /\ IF r.throw /\ ~CatchesStageError(r)
     THEN /\ hPc' = "threw"
          /\ UNCHANGED <<hStage, hResult>>
     ELSE IF ~r.throw /\ StageSucceeded(r)
     THEN /\ hPc' = "returned"
          /\ hResult' = [success |-> r.success, products |-> r.products]
          /\ UNCHANGED hStage
     ELSE IF NextStage(hStage) > Len(StageOrder)
     THEN /\ hPc' = "returned"
          /\ hResult' = HealFailure
          /\ hStage' = NextStage(hStage)
     ELSE /\ hPc' = "running"
          /\ hStage' = NextStage(hStage)
          /\ UNCHANGED hResult

\* heal(page, failedExtraction, context) is called
HealStart ==
  /\ hPc \in {"idle", "returned"}
  /\ call.pc = "none"
  /\ healCalls < MaxHeals
  /\ hPc' = "running"
  /\ hStage' = 1
  /\ hInvoked' = <<>>
  /\ hOutcomes' = <<>>
  /\ hResult' = NoResult
  /\ healCalls' = healCalls + 1
  /\ UNCHANGED <<llmConfig, callCount, call, contacts, visionCalls>>
  /\ UNCHANGED runVars /\ UNCHANGED learnVars /\ UNCHANGED recVars /\ UNCHANGED svcVars

StageAlternativeSelectors ==
  /\ hPc = "running" /\ StageOrder[hStage] = "alternative-selectors"
  /\ hInvoked' = Append(hInvoked, StageOrder[hStage])
  /\ \E p1, p2 \in THROWN..MaxProducts : StageSettled(tryAlternativeSelectors(p1, p2))
  /\ UNCHANGED <<llmConfig, callCount, call, contacts, healCalls, visionCalls>>
  /\ UNCHANGED runVars /\ UNCHANGED learnVars /\ UNCHANGED recVars /\ UNCHANGED svcVars

StageSemantic ==
  /\ hPc = "running" /\ StageOrder[hStage] = "semantic-html"
  /\ hInvoked' = Append(hInvoked, StageOrder[hStage])
  /\ \E n \in THROWN..MaxProducts : StageSettled(trySemanticExtraction(n))
  /\ UNCHANGED <<llmConfig, callCount, call, contacts, healCalls, visionCalls>>
  /\ UNCHANGED runVars /\ UNCHANGED learnVars /\ UNCHANGED recVars /\ UNCHANGED svcVars

StageSchemaOrg ==
  /\ hPc = "running" /\ StageOrder[hStage] = "schema-org"
  /\ hInvoked' = Append(hInvoked, StageOrder[hStage])
  /\ \E n \in THROWN..MaxProducts : StageSettled(trySchemaOrgExtraction(n))
  /\ UNCHANGED <<llmConfig, callCount, call, contacts, healCalls, visionCalls>>
  /\ UNCHANGED runVars /\ UNCHANGED learnVars /\ UNCHANGED recVars /\ UNCHANGED svcVars

\* tryLLMExtraction up to "await this.llm.complete": page.evaluate may reject
\* (outside the inner try), otherwise the call to the healer's client begins
StageLLMBegin ==
  /\ hPc = "running" /\ StageOrder[hStage] = "llm-extraction"
  /\ call.pc = "none"
  /\ hInvoked' = Append(hInvoked, StageOrder[hStage])
  /\ \E evalOk \in BOOLEAN :
       IF evalOk
       THEN /\ CallBegin("healer", "complete", "heal")
            /\ hPc' = "awaitLLM"
            /\ UNCHANGED <<hStage, hOutcomes, hResult>>
       ELSE /\ StageSettled(Throw)
            /\ UNCHANGED <<callCount, call, contacts>>
  /\ UNCHANGED <<llmConfig, healCalls, visionCalls>>
  /\ UNCHANGED runVars /\ UNCHANGED learnVars /\ UNCHANGED recVars /\ UNCHANGED svcVars

\* tryLLMExtraction resumes with the settled call
StageLLMFinish ==
  /\ hPc = "awaitLLM" /\ call.pc = "done" /\ call.owner = "heal"
  /\ \E reply \in Replies, n \in 0..MaxProducts :
       StageSettled(tryLLMExtraction(call.outcome, reply, n))
  /\ call' = NoCall
  /\ UNCHANGED <<llmConfig, callCount, contacts, hInvoked, healCalls, visionCalls>>
  /\ UNCHANGED runVars /\ UNCHANGED learnVars /\ UNCHANGED recVars /\ UNCHANGED svcVars

\* ---------------------------------------------------------- VisionAnalyzer
\* analyzeScreenshot up to "await this.llm.analyzeImage" on the analyzer's client
AnalyzeScreenshotBegin ==
  /\ call.pc = "none"
  /\ hPc # "awaitLLM"
  /\ visionCalls < MaxVision
  /\ visionCalls' = visionCalls + 1
  /\ CallBegin("vision", "analyzeImage", "vision")
  /\ UNCHANGED <<llmConfig, hPc, hStage, hInvoked, hOutcomes, hResult, healCalls>>
  /\ UNCHANGED runVars /\ UNCHANGED learnVars /\ UNCHANGED recVars /\ UNCHANGED svcVars

\* analyzeScreenshot resumes: parsed products, or [] from its catch
AnalyzeScreenshotFinish ==
  /\ call.pc = "done" /\ call.owner = "vision"
  /\ call' = NoCall
  /\ UNCHANGED <<llmConfig, callCount, contacts, hPc, hStage, hInvoked, hOutcomes,
                 hResult, healCalls, visionCalls>>
  /\ UNCHANGED runVars /\ UNCHANGED learnVars /\ UNCHANGED recVars /\ UNCHANGED svcVars


NoRun ==
  /\ runPc = "off"
  /\ siteIdx = 1
  /\ catIdx = 1
  /\ started = 0
  /\ calls = <<>>
  /\ flows = <<>>
  /\ elapsed = 0
  /\ catErrors = {}
  /\ patterns = <<>>
  /\ sites = <<>>
  /\ sbConfigured = FALSE
  /\ browserOpen = FALSE
  /\ pages = {}
  /\ isShuttingDown = FALSE
  /\ sd = <<>>
  /\ sdLog = <<>>
  /\ shuttingDown = FALSE
  /\ exited = FALSE

NextHeal ==
  \/ HealStart
  \/ StageAlternativeSelectors
  \/ StageSemantic
  \/ StageSchemaOrg
  \/ StageLLMBegin
  \/ StageLLMFinish
  \/ \E ok \in BOOLEAN : PrimarySettles(ok)
  \/ \E ok \in BOOLEAN : FallbackSettles(ok)
  \/ AnalyzeScreenshotBegin
  \/ AnalyzeScreenshotFinish



\* =========================================================================
\* FashionTeeAgent.run / AgentOrchestrator
\* =========================================================================

\* largest number of products of a direct structural extraction in the model
MaxDirect == 3
\* config.scrapeTimeout, in clock ticks of the model
ScrapeTimeout == 2
\* the clock of a call stops here
MaxClock == ScrapeTimeout + 1

\* navigateWithRetry: maxRetries = 3
NavMaxRetries == 3
\* config.agent.maxRetries
AgentMaxRetries == 3
\* _scrapeSiteInternal: directProducts.length >= 3
MinDirectProducts == 3
\* recordSuccess: pattern.successCount % 5 === 0
SaveEvery == 5
\* config.agent.enableLearning
EnableLearning == TRUE
\* confidence is kept in millionths
Scale == 10 ^ 6

REJECT == -1
NONE == -2

\* config/sites.js, two of its sites: a browser site, registered with or
\* without scrapingBeeFallback, and a ScrapingBee-primary site with two
\* categories
Registry(fallback) ==
  << [name |-> "Boohoo Man", useScrapingBee |-> FALSE,
      scrapingBeeFallback |-> fallback, categories |-> 1],
     [name |-> "Abercrombie", useScrapingBee |-> TRUE,
      scrapingBeeFallback |-> FALSE, categories |-> 2] >>

Registries == { Registry(fb) : fb \in BOOLEAN }

SiteIds == 1..Len(Registry(TRUE))

RECURSIVE SumCategories(_, _)
SumCategories(reg, i) ==
  IF i = 0 THEN 0 ELSE reg[i].categories + SumCategories(reg, i - 1)

TotalCategories == SumCategories(Registry(TRUE), Len(Registry(TRUE)))
CallIds == 1..TotalCategories

\* ---------------------------------------------------------- PatternLearner
NoPattern == [exists |-> FALSE, strategy |-> "none", successCount |-> 0,
              failureCount |-> 0, confidence |-> 0, needsRelearning |-> FALSE]

\* calcConfidence: alpha * outcome + (1 - alpha) * current, alpha = 0.3
calcConfidenceUnweighted(current, success) ==
  (3 * (IF success THEN Scale ELSE 0)) \div 10 + current
calcConfidence(current, success) ==
  (3 * (IF success THEN Scale ELSE 0) + 7 * current) \div 10

\* a pattern learned_patterns.json may hold at start: the one four
\* successes of the hybrid strategy in a row leave behind
LoadedPattern ==
  [exists |-> TRUE, strategy |-> "hybrid", successCount |-> 4,
   failureCount |-> 0,
   confidence |-> calcConfidence(calcConfidence(calcConfidence(
                    calcConfidence(Scale \div 2, TRUE), TRUE), TRUE), TRUE),
   needsRelearning |-> FALSE]

\* existing.confidence || 0.5
PreviousConfidenceForgotten(existing) == Scale \div 2
PreviousConfidence(existing) ==
  IF existing.confidence = 0 THEN Scale \div 2 ELSE existing.confidence

\* the object literal of recordSuccess has no failureCount field, which
\* recordFailure reads as 0
FreshFailureCountKept(existing) == existing.failureCount
FreshFailureCount(existing) == 0

\* recordSuccess: the stored pattern is replaced by a fresh object
recordSuccess(ps, site, strategyName) ==
  LET existing == ps[site]
      cur == PreviousConfidence(existing)
  IN [ps EXCEPT ![site] =
        [exists |-> TRUE, strategy |-> strategyName,
         successCount |-> existing.successCount + 1,
         failureCount |-> FreshFailureCount(existing),
         confidence |-> calcConfidence(cur, TRUE),
         needsRelearning |-> FALSE]]

\* if (existing.failureCount > 3 && existing.confidence < 0.3)
NeedsRelearningAtOnce(failureCount, conf) == TRUE
NeedsRelearning(failureCount, conf) == failureCount > 3 /\ 10 * conf < 3 * Scale

\* recordFailure: only an existing pattern is touched
recordFailure(ps, site) ==
  LET existing == ps[site]
      conf == calcConfidence(existing.confidence, FALSE)
  IN IF ~existing.exists THEN ps
     ELSE [ps EXCEPT ![site] =
             [existing EXCEPT !.failureCount = @ + 1,
                              !.confidence = conf,
                              !.needsRelearning =
                                 IF NeedsRelearning(existing.failureCount + 1, conf)
                                 THEN TRUE ELSE @]]

\* loadPatterns: the file's patterns, or none when it is missing or unreadable
LoadablePatterns ==
  { [s \in SiteIds |-> NoPattern],
    [s \in SiteIds |-> IF s = 1 THEN LoadedPattern ELSE NoPattern] }

\* ------------------------------------------------------- StrategySelector
\* choose: best.count >= 3
MinGridCount == 3

\* analyzePage: productIndicators holds the counts of the card selectors that
\* matched at least one element
PageAnalyses == [hasSchemaOrg : BOOLEAN, hasSemanticHTML : BOOLEAN,
                 productIndicators : {<<>>, <<2>>, <<3>>, <<3, 2>>},
                 isReactApp : BOOLEAN]

\* productIndicators.reduce((a, b) => a.count > b.count ? a : b, {count: 0}),
\* the count of its result after the first i entries
RECURSIVE BestCount(_, _)
BestCount(inds, i) ==
  IF i = 0 THEN 0
  ELSE LET a == BestCount(inds, i - 1)
       IN IF a > inds[i] THEN a ELSE inds[i]

\* a selector that tests for a single-page app before the product grid
chooseSpaFirst(pa) ==
  IF pa.hasSchemaOrg THEN "semantic"
  ELSE IF pa.hasSemanticHTML THEN "semantic"
  ELSE IF pa.isReactApp THEN "vision"
  ELSE "hybrid"
choose(pa) ==
  IF pa.hasSchemaOrg THEN "semantic"
  ELSE IF pa.hasSemanticHTML THEN "semantic"
  ELSE IF Len(pa.productIndicators) > 0
          /\ BestCount(pa.productIndicators, Len(pa.productIndicators)) >= MinGridCount
       THEN "hybrid"
  ELSE IF pa.isReactApp THEN "vision"
  ELSE "hybrid"

fromPattern(pattern) ==
  IF pattern.strategy \in {"vision", "semantic", "hybrid"} THEN pattern.strategy
  ELSE "hybrid"

\* _scrapeSiteInternal: a pattern with confidence above 0.8 bypasses choose
UsesPattern(pattern) == pattern.exists /\ 10 * pattern.confidence > 8 * Scale

SelectStrategy(pattern, pa) ==
  IF UsesPattern(pattern) THEN fromPattern(pattern) ELSE choose(pa)

\* ------------------------------------------------------ _scrapeSiteInternal
IdleFlow == [pc |-> "idle", attempt |-> 0, direct |-> 0, prods |-> 0,
             strategy |-> "none", cause |-> "none", healed |-> "no", res |-> NONE]

NoCallRec == [state |-> "none", site |-> 0, n |-> NONE, why |-> "none",
              healed |-> "no"]

SiteOf(f) == calls[f].site

\* siteInfo?.scrapingBeeFallback && this.scrapingBee.isConfigured()
UsesFallbackNever(site) == FALSE
UsesFallback(site) == sites[site].scrapingBeeFallback /\ sbConfigured

\* scrapeWithScrapingBee: [] when not configured, [] when the client throws,
\* otherwise the m validated products; it never throws
scrapeWithScrapingBeeThrowing(ok, m) ==
  IF ~sbConfigured THEN 0 ELSE IF ~ok THEN THROWN ELSE m
scrapeWithScrapingBee(ok, m) ==
  IF ~sbConfigured THEN 0 ELSE IF ~ok THEN 0 ELSE m

\* the page of flow f can still be driven
PageAlive(f) == browserOpen /\ f \in pages

\* outcomes of a step that evaluates a script on the page
PageOutcomes(f, max) == IF PageAlive(f) THEN THROWN..max ELSE {THROWN}

flowFrame == <<sites, runPc, siteIdx, catIdx, started, elapsed, catErrors, sbConfigured,
               isShuttingDown, sd, sdLog, shuttingDown, exited>>

\* "return n" inside the try block: the finally block is next
Returned(f, n) ==
  flows' = [flows EXCEPT ![f] =
              [IdleFlow EXCEPT !.pc = "finally", !.res = n, !.cause = flows[f].cause]]

\* catch (error) of _scrapeSiteInternal up to its first await
Caught(f, cause) ==
  IF UsesFallback(SiteOf(f))
  THEN /\ flows' = [flows EXCEPT ![f] = [IdleFlow EXCEPT !.pc = "sbLast", !.cause = cause]]
       /\ UNCHANGED patterns
  ELSE /\ patterns' = recordFailure(patterns, SiteOf(f))
       /\ flows' = [flows EXCEPT ![f] =
                      [IdleFlow EXCEPT !.pc = "finally", !.res = REJECT, !.cause = cause]]

\* patternLearner.recordSuccess(...); its savePatterns every fifth success
\* writes the file and swallows a write error, the map is not touched
Learn(site, strategyName) ==
  LET np == recordSuccess(patterns, site, strategyName)
  IN patterns' = np

\* tail of _scrapeSiteInternal after validateAndHeal returned v products
Validated(f, v, strategyName, healed) ==
  /\ IF EnableLearning /\ v > 0
     THEN Learn(SiteOf(f), strategyName)
     ELSE UNCHANGED patterns
  /\ flows' = [flows EXCEPT ![f] =
                 [IdleFlow EXCEPT !.pc = "finally", !.res = v, !.healed = healed]]

\* first step: ScrapingBee-primary sites skip the browser; others take a page
FlowBegin(f) ==
  /\ ~exited /\ flows[f].pc = "begin"
  /\ IF sites[SiteOf(f)].useScrapingBee
     THEN /\ flows' = [flows EXCEPT ![f] = [@ EXCEPT !.pc = "sbPrimary"]]
          /\ UNCHANGED <<patterns, browserOpen, pages>>
     ELSE \E ok \in BOOLEAN :
            IF ok
            THEN /\ browserOpen' = TRUE
                 /\ pages' = pages \cup {f}
                 /\ flows' = [flows EXCEPT ![f] = [@ EXCEPT !.pc = "nav", !.attempt = 1]]
                 /\ UNCHANGED patterns
            ELSE /\ Caught(f, "newPage")
                 /\ UNCHANGED <<browserOpen, pages>>
  /\ UNCHANGED calls
  /\ UNCHANGED flowFrame /\ UNCHANGED healVars /\ UNCHANGED learnVars /\ UNCHANGED recVars /\ UNCHANGED svcVars

\* one pass of navigateWithRetry's loop; the last pass adds one more goto
NavAttempt(f) ==
  /\ ~exited /\ flows[f].pc = "nav"
  /\ \E out \in PageOutcomes(f, 0), last \in PageOutcomes(f, 0) :
       IF out # THROWN
       THEN /\ flows' = [flows EXCEPT ![f] = [@ EXCEPT !.pc = "postNav"]]
            /\ UNCHANGED patterns
       ELSE IF flows[f].attempt < NavMaxRetries
       THEN /\ flows' = [flows EXCEPT ![f] = [@ EXCEPT !.attempt = @ + 1]]
            /\ UNCHANGED patterns
       ELSE IF last # THROWN
       THEN /\ flows' = [flows EXCEPT ![f] = [@ EXCEPT !.pc = "postNav"]]
            /\ UNCHANGED patterns
       ELSE Caught(f, "navigation")
  /\ UNCHANGED <<calls, sites, browserOpen, pages>>
  /\ UNCHANGED flowFrame /\ UNCHANGED healVars /\ UNCHANGED learnVars /\ UNCHANGED recVars /\ UNCHANGED svcVars

\* popups, cookies, title check for a bot-detection page
PostNav(f) ==
  /\ ~exited /\ flows[f].pc = "postNav"
  /\ \E blocked \in BOOLEAN :
       IF blocked
       THEN IF UsesFallback(SiteOf(f))
            THEN flows' = [flows EXCEPT ![f] = [@ EXCEPT !.pc = "sbBlocked"]]
            ELSE Returned(f, 0)
       ELSE flows' = [flows EXCEPT ![f] = [@ EXCEPT !.pc = "direct"]]
  /\ UNCHANGED <<calls, patterns, sites, browserOpen, pages>>
  /\ UNCHANGED flowFrame /\ UNCHANGED healVars /\ UNCHANGED learnVars /\ UNCHANGED recVars /\ UNCHANGED svcVars

\* "return await this.scrapeWithScrapingBee" on a bot-detection page
SbBlocked(f) ==
  /\ ~exited /\ flows[f].pc = "sbBlocked"
  /\ \E ok \in BOOLEAN, m \in 0..MaxDirect :
       LET r == scrapeWithScrapingBee(ok, m)
       IN IF r = THROWN THEN Caught(f, "scrapingbee")
          ELSE Returned(f, r) /\ UNCHANGED patterns
  /\ UNCHANGED <<calls, sites, browserOpen, pages>>
  /\ UNCHANGED flowFrame /\ UNCHANGED healVars /\ UNCHANGED learnVars /\ UNCHANGED recVars /\ UNCHANGED svcVars

\* if (directProducts.length >= 3): record 'direct-dom' and return them
DirectSufficesNever(n) == FALSE
DirectSuffices(n) == n >= MinDirectProducts

\* extractProductsDirectly and the decisions on its count
Direct(f) ==
  /\ ~exited /\ flows[f].pc = "direct"
  /\ \E n \in PageOutcomes(f, MaxDirect) :
       IF n = THROWN
       THEN Caught(f, "extractor")
       ELSE IF DirectSuffices(n)
       THEN /\ IF EnableLearning THEN Learn(SiteOf(f), "direct-dom")
               ELSE UNCHANGED patterns
            /\ Returned(f, n)
       ELSE IF UsesFallback(SiteOf(f))
       THEN /\ flows' = [flows EXCEPT ![f] = [@ EXCEPT !.pc = "sbFew", !.direct = n]]
            /\ UNCHANGED patterns
       ELSE IF n > 0
       THEN Returned(f, n) /\ UNCHANGED patterns
       ELSE /\ flows' = [flows EXCEPT ![f] = [@ EXCEPT !.pc = "strategy"]]
            /\ UNCHANGED patterns
  /\ UNCHANGED <<calls, browserOpen, pages>>
  /\ UNCHANGED flowFrame /\ UNCHANGED healVars /\ UNCHANGED learnVars /\ UNCHANGED recVars /\ UNCHANGED svcVars

\* the browser found too few: ScrapingBee is tried, its error is caught
SbFew(f) ==
  /\ ~exited /\ flows[f].pc = "sbFew"
  /\ \E ok \in BOOLEAN, m \in 0..MaxDirect :
       LET r == scrapeWithScrapingBee(ok, m)
           d == flows[f].direct
       IN IF r # THROWN /\ r > d THEN Returned(f, r)
          ELSE IF d > 0 THEN Returned(f, d)
          ELSE flows' = [flows EXCEPT ![f] = [@ EXCEPT !.pc = "strategy"]]
  /\ UNCHANGED <<calls, patterns, sites, browserOpen, pages>>
  /\ UNCHANGED flowFrame /\ UNCHANGED healVars /\ UNCHANGED learnVars /\ UNCHANGED recVars /\ UNCHANGED svcVars

\* analyzePage, getPattern, strategy choice, strategy.extract and
\* validateAndHeal up to its first await
Strategy(f) ==
  /\ ~exited /\ flows[f].pc = "strategy"
  /\ \E name \in { SelectStrategy(patterns[SiteOf(f)], pa) : pa \in PageAnalyses },
        e \in PageOutcomes(f, MaxProducts), confHigh \in BOOLEAN :
       LET \* VisionStrategy.extract catches; the other extractors do not
           threw == e = THROWN /\ name # "vision"
           p == IF e = THROWN THEN 0 ELSE e
       IN IF threw
          THEN Caught(f, "extractor")
          ELSE \E u \in 0..p :
                 IF 2 * u >= p /\ u > 0
                 THEN \E v \in 0..u : Validated(f, v, name, "no")
                 ELSE IF confHigh /\ p > 0
                 THEN /\ flows' = [flows EXCEPT ![f] =
                                     [@ EXCEPT !.pc = "enrich", !.prods = p,
                                               !.strategy = name]]
                      /\ UNCHANGED patterns
                 ELSE /\ flows' = [flows EXCEPT ![f] =
                                     [@ EXCEPT !.pc = IF 1 <= AgentMaxRetries
                                                      THEN "heal" ELSE "lastDirect",
                                               !.prods = p, !.strategy = name]]
                      /\ UNCHANGED patterns
  /\ UNCHANGED <<calls, browserOpen, pages>>
  /\ UNCHANGED flowFrame /\ UNCHANGED healVars /\ UNCHANGED learnVars /\ UNCHANGED recVars /\ UNCHANGED svcVars

\* validateAndHeal, confident extraction: enrichProductsWithDOM, cleanProducts
Enrich(f) ==
  /\ ~exited /\ flows[f].pc = "enrich"
  /\ \E d \in PageOutcomes(f, MaxDirect) :
       IF d = THROWN
       THEN Caught(f, "extractor")
       ELSE \E v \in 0..flows[f].prods : Validated(f, v, flows[f].strategy, "no")
  /\ UNCHANGED <<calls, browserOpen, pages>>
  /\ UNCHANGED flowFrame /\ UNCHANGED healVars /\ UNCHANGED learnVars /\ UNCHANGED recVars /\ UNCHANGED svcVars

\* validateAndHeal: selfHealer.heal settles (it never throws); h = 0 is the
\* overall failure, h > 0 the products of the stage that succeeded
Heal(f) ==
  /\ ~exited /\ flows[f].pc = "heal"
  /\ \E h \in (IF PageAlive(f) THEN 0..MaxProducts ELSE {0}) :
       IF h > 0
       THEN \E v \in 0..h : Validated(f, v, flows[f].strategy, "ok")
       ELSE /\ flows' = [flows EXCEPT ![f] =
                           [@ EXCEPT !.pc = "lastDirect", !.healed = "exhausted"]]
            /\ UNCHANGED patterns
  /\ UNCHANGED <<calls, browserOpen, pages>>
  /\ UNCHANGED flowFrame /\ UNCHANGED healVars /\ UNCHANGED learnVars /\ UNCHANGED recVars /\ UNCHANGED svcVars

\* validateAndHeal: the last direct pass, then cleanProducts(products)
LastDirect(f) ==
  /\ ~exited /\ flows[f].pc = "lastDirect"
  /\ \E d \in PageOutcomes(f, MaxDirect) :
       IF d = THROWN
       THEN Caught(f, "extractor")
       ELSE IF d > 0
       THEN Validated(f, d, flows[f].strategy, flows[f].healed)
       ELSE \E v \in 0..flows[f].prods :
              Validated(f, v, flows[f].strategy, flows[f].healed)
  /\ UNCHANGED <<calls, browserOpen, pages>>
  /\ UNCHANGED flowFrame /\ UNCHANGED healVars /\ UNCHANGED learnVars /\ UNCHANGED recVars /\ UNCHANGED svcVars

\* catch block: ScrapingBee as last resort; were it to throw, recordFailure
\* and rethrow
SbLast(f) ==
  /\ ~exited /\ flows[f].pc = "sbLast"
  /\ \E ok \in BOOLEAN, m \in 0..MaxDirect :
       LET r == scrapeWithScrapingBee(ok, m)
       IN IF r = THROWN
          THEN /\ patterns' = recordFailure(patterns, SiteOf(f))
               /\ Returned(f, REJECT)
          ELSE Returned(f, r) /\ UNCHANGED patterns
  /\ UNCHANGED <<calls, sites, browserOpen, pages>>
  /\ UNCHANGED flowFrame /\ UNCHANGED healVars /\ UNCHANGED learnVars /\ UNCHANGED recVars /\ UNCHANGED svcVars

\* the promise of _scrapeSiteInternal settles; scrapeSite's race adopts the
\* value if it has not settled yet
Settled(f, res, cause, healed) ==
  calls' = IF calls[f].state = "pending"
           THEN [calls EXCEPT ![f] =
                   [@ EXCEPT !.state = IF res = REJECT THEN "rejected" ELSE "resolved",
                             !.n = res, !.why = cause, !.healed = healed]]
           ELSE calls

\* ScrapingBee-primary site: the result is returned from outside the try
SbPrimary(f) ==
  /\ ~exited /\ flows[f].pc = "sbPrimary"
  /\ \E ok \in BOOLEAN, m \in 0..MaxDirect :
       LET r == scrapeWithScrapingBee(ok, m)
       IN IF r = THROWN THEN Settled(f, REJECT, "scrapingbee", "no")
          ELSE Settled(f, r, "none", "no")
  /\ flows' = [flows EXCEPT ![f] = [IdleFlow EXCEPT !.pc = "done"]]
  /\ UNCHANGED <<patterns, sites, browserOpen, pages>>
  /\ UNCHANGED flowFrame /\ UNCHANGED healVars /\ UNCHANGED learnVars /\ UNCHANGED recVars /\ UNCHANGED svcVars

\* closePage: page.close() with its error caught, then the page is deleted
\* from the pool
closePageKeeps(pool, f) == pool
closePage(pool, f) == pool \ {f}

\* finally: closePage(page), then the promise settles
Finally(f) ==
  /\ ~exited /\ flows[f].pc = "finally"
  /\ pages' = closePage(pages, f)
  /\ Settled(f, flows[f].res, flows[f].cause, flows[f].healed)
  /\ flows' = [flows EXCEPT ![f] = [IdleFlow EXCEPT !.pc = "done"]]
  /\ UNCHANGED <<patterns, sites, browserOpen>>
  /\ UNCHANGED flowFrame /\ UNCHANGED healVars /\ UNCHANGED learnVars /\ UNCHANGED recVars /\ UNCHANGED svcVars

\* ----------------------------------------------------------------- scrapeSite
\* scrapeSite races the flow against setTimeout(reject, timeout)
ArmsTimerNever(k) == FALSE
ArmsTimer(k) == TRUE

CurrentPending == runPc = "await" /\ calls[started].state = "pending"

TimerDue == CurrentPending /\ ArmsTimer(started) /\ elapsed >= ScrapeTimeout

\* time passes while scrapeSite is awaited; a due timer fires first
Tick ==
  /\ ~exited /\ CurrentPending
  /\ elapsed < MaxClock
  /\ ~TimerDue
  /\ elapsed' = elapsed + 1
  /\ UNCHANGED <<runPc, siteIdx, catIdx, started, calls, flows, catErrors, patterns,
                 sites, sbConfigured, browserOpen, pages, isShuttingDown, sd, sdLog,
                 shuttingDown, exited>>
  /\ UNCHANGED healVars /\ UNCHANGED learnVars /\ UNCHANGED recVars /\ UNCHANGED svcVars

\* the timeout rejects the race; the flow is not cancelled
TimerFire ==
  /\ ~exited /\ TimerDue
  /\ calls' = [calls EXCEPT ![started] = [@ EXCEPT !.state = "rejected",
                                                  !.why = "timeout"]]
  /\ UNCHANGED <<runPc, siteIdx, catIdx, started, flows, elapsed, catErrors, patterns,
                 sites, sbConfigured, browserOpen, pages, isShuttingDown, sd, sdLog,
                 shuttingDown, exited>>
  /\ UNCHANGED healVars /\ UNCHANGED learnVars /\ UNCHANGED recVars /\ UNCHANGED svcVars

\* ------------------------------------------------------- FashionTeeAgent.run
EmptyPatterns == [s \in SiteIds |-> NoPattern]

\* agent.initialize(): browser launch, loadPatterns; a throw is fatal
RunInitialize ==
  /\ ~exited /\ runPc = "init"
  /\ \E ok \in BOOLEAN, loaded \in LoadablePatterns :
       IF ok
       THEN /\ browserOpen' = TRUE
            /\ patterns' = loaded
            /\ runPc' = "loop"
       ELSE /\ runPc' = "finally"
            /\ UNCHANGED <<browserOpen, patterns>>
  /\ UNCHANGED <<siteIdx, catIdx, started, calls, flows, elapsed, catErrors, sites,
                 sbConfigured, pages, isShuttingDown, sd, sdLog, shuttingDown, exited>>
  /\ UNCHANGED healVars /\ UNCHANGED learnVars /\ UNCHANGED recVars /\ UNCHANGED svcVars

\* processCategory calls agent.scrapeSite for the next category
StartCategory ==
  /\ ~exited /\ runPc = "loop"
  /\ started' = started + 1
  /\ calls' = [calls EXCEPT ![started + 1] =
                 [NoCallRec EXCEPT !.state = "pending", !.site = siteIdx]]
  /\ flows' = [flows EXCEPT ![started + 1] = [IdleFlow EXCEPT !.pc = "begin"]]
  /\ elapsed' = 0
  /\ runPc' = "await"
  /\ UNCHANGED <<siteIdx, catIdx, catErrors, patterns, sites, sbConfigured,
                 browserOpen, pages, isShuttingDown, sd, sdLog, shuttingDown, exited>>
  /\ UNCHANGED healVars /\ UNCHANGED learnVars /\ UNCHANGED recVars /\ UNCHANGED svcVars

\* scrapeSite settled: processCategory finishes or processSite's catch records
\* the error; then the loops advance
CategoryDone ==
  /\ ~exited /\ runPc = "await"
  /\ calls[started].state \in {"resolved", "rejected"}
  /\ catErrors' = IF calls[started].state = "rejected"
                  THEN catErrors \cup {started} ELSE catErrors
  /\ calls' = [calls EXCEPT ![started] =
                 [NoCallRec EXCEPT !.state = "consumed", !.site = calls[started].site]]
  /\ elapsed' = 0
  /\ IF catIdx < sites[siteIdx].categories
     THEN /\ catIdx' = catIdx + 1
          /\ UNCHANGED siteIdx
          /\ runPc' = "loop"
     ELSE IF siteIdx < Len(sites)
     THEN /\ siteIdx' = siteIdx + 1
          /\ catIdx' = 1
          /\ runPc' = "loop"
     ELSE /\ runPc' = "finally"
          /\ UNCHANGED <<siteIdx, catIdx>>
  /\ UNCHANGED <<started, flows, patterns, sites, sbConfigured, browserOpen,
                 pages, isShuttingDown, sd, sdLog, shuttingDown, exited>>
  /\ UNCHANGED healVars /\ UNCHANGED learnVars /\ UNCHANGED recVars /\ UNCHANGED svcVars

\* AgentOrchestrator.shutdown up to its first await: the re-entrancy guard
\* returns at once while another shutdown is in progress, and the caller
\* (run's .then / the signal handler) goes on to process.exit
ShutdownCalled(caller) ==
  IF isShuttingDown
  THEN /\ exited' = TRUE
       /\ UNCHANGED <<isShuttingDown, sd>>
  ELSE /\ isShuttingDown' = TRUE
       /\ sd' = [sd EXCEPT ![caller] = "save"]
       /\ UNCHANGED exited

\* finally of run: await this.agent.shutdown()
RunFinally ==
  /\ ~exited /\ runPc = "finally"
  /\ runPc' = "shutdown"
  /\ ShutdownCalled("run")
  /\ UNCHANGED <<siteIdx, catIdx, started, calls, flows, elapsed, catErrors, patterns,
                 sites, sbConfigured, browserOpen, pages, sdLog, shuttingDown>>
  /\ UNCHANGED healVars /\ UNCHANGED learnVars /\ UNCHANGED recVars /\ UNCHANGED svcVars

\* SIGINT / SIGTERM: gracefulShutdown
Signal ==
  /\ ~exited /\ ~shuttingDown
  /\ shuttingDown' = TRUE
  /\ ShutdownCalled("signal")
  /\ UNCHANGED <<runPc, siteIdx, catIdx, started, calls, flows, elapsed, catErrors,
                 patterns, sites, sbConfigured, browserOpen, pages, sdLog>>
  /\ UNCHANGED healVars /\ UNCHANGED learnVars /\ UNCHANGED recVars /\ UNCHANGED svcVars

\* shutdown: savePatterns settled (its error is caught)
ShutdownSave(caller) ==
  /\ ~exited /\ sd[caller] = "save"
  /\ sdLog' = Append(sdLog, "save")
  /\ sd' = [sd EXCEPT ![caller] = "close"]
  /\ UNCHANGED <<runPc, siteIdx, catIdx, started, calls, flows, elapsed, catErrors,
                 patterns, sites, sbConfigured, browserOpen, pages, isShuttingDown,
                 shuttingDown, exited>>
  /\ UNCHANGED healVars /\ UNCHANGED learnVars /\ UNCHANGED recVars /\ UNCHANGED svcVars

\* shutdown: browserManager.close() settled, the flag is reset, and the
\* caller's continuation exits the process
ShutdownClose(caller) ==
  /\ ~exited /\ sd[caller] = "close"
  /\ browserOpen' = FALSE
  /\ pages' = {}
  /\ sdLog' = Append(sdLog, "close")
  /\ isShuttingDown' = FALSE
  /\ sd' = [sd EXCEPT ![caller] = "done"]
  /\ exited' = TRUE
  /\ UNCHANGED <<runPc, siteIdx, catIdx, started, calls, flows, elapsed, catErrors,
                 patterns, sites, sbConfigured, shuttingDown>>
  /\ UNCHANGED healVars /\ UNCHANGED learnVars /\ UNCHANGED recVars /\ UNCHANGED svcVars

Callers == {"run", "signal"}

\* the validator and the dedup are not driven
\* the page pool and the scheduler are not driven
NoServices ==
  /\ svcMode = "off"
  /\ bmPc = <<>>
  /\ bmWaited = <<>>
  /\ bmPages = {}
  /\ isRunning = FALSE
  /\ cronPc = <<>>
  /\ lastRunResult = "none"

NoRecords ==
  /\ rMode = "off"
  /\ rPc = "input"
  /\ rIn = <<>>
  /\ rOut = <<>>
  /\ rBranch = "none"

\* the learner and the store are not driven
NoLearn ==
  /\ lMode = "off"
  /\ lPc = "new"
  /\ lFile = <<>>
  /\ lPatterns = <<>>
  /\ lFailures = 0
  /\ lOps = 0
  /\ lLast = <<>>
  /\ lThrew = FALSE
  /\ psData = "{}"
  /\ psMain = "missing"
  /\ psBackup = "missing"

\* nothing of the run has started
RunIdle ==
  /\ runPc = "init"
  /\ siteIdx = 1
  /\ catIdx = 1
  /\ started = 0
  /\ calls = [k \in CallIds |-> NoCallRec]
  /\ flows = [k \in CallIds |-> IdleFlow]
  /\ elapsed = 0
  /\ catErrors = {}
  /\ patterns = EmptyPatterns
  /\ browserOpen = FALSE
  /\ pages = {}
  /\ isShuttingDown = FALSE
  /\ sd = [c \in Callers |-> "idle"]
  /\ sdLog = <<>>
  /\ shuttingDown = FALSE
  /\ exited = FALSE

\* no heal call and no language-model call is in progress
HealIdle ==
  /\ callCount = [c \in Clients |-> 0]
  /\ contacts = [c \in Clients |-> 0]
  /\ call = NoCall
  /\ hPc = "idle"
  /\ hStage = 1
  /\ hInvoked = <<>>
  /\ hOutcomes = <<>>
  /\ hResult = NoResult
  /\ healCalls = 0
  /\ visionCalls = 0

Init ==
  /\ RunIdle
  /\ NoLearn
  /\ NoRecords
  /\ NoServices
  /\ sites \in Registries
  /\ sbConfigured \in BOOLEAN
  /\ HealIdle
  /\ llmConfig = [openaiKey |-> TRUE, anthropicKey |-> TRUE,
                  provider |-> "openai", fallbackProvider |-> "anthropic"]

Next ==
  \/ RunInitialize
  \/ StartCategory
  \/ CategoryDone
  \/ RunFinally
  \/ Signal
  \/ \E c \in Callers : ShutdownSave(c)
  \/ \E c \in Callers : ShutdownClose(c)
  \/ Tick
  \/ TimerFire
  \/ \E f \in CallIds : FlowBegin(f)
  \/ \E f \in CallIds : NavAttempt(f)
  \/ \E f \in CallIds : PostNav(f)
  \/ \E f \in CallIds : SbBlocked(f)
  \/ \E f \in CallIds : Direct(f)
  \/ \E f \in CallIds : SbFew(f)
  \/ \E f \in CallIds : Strategy(f)
  \/ \E f \in CallIds : Enrich(f)
  \/ \E f \in CallIds : Heal(f)
  \/ \E f \in CallIds : LastDirect(f)
  \/ \E f \in CallIds : SbLast(f)
  \/ \E f \in CallIds : SbPrimary(f)
  \/ \E f \in CallIds : Finally(f)

Spec == Init /\ [][Next]_vars

\* SelfHealer and the LLM clients on their own, for every provider configuration
InitHeal ==
  /\ llmConfig \in LLMConfigs
  /\ HealIdle
  /\ NoRun
  /\ NoLearn
  /\ NoRecords
  /\ NoServices

SpecHeal == InitHeal /\ [][NextHeal]_vars

\* =========================================================================
\* PatternLearner, StrategySelector and PatternStore driven directly
\* =========================================================================

\* operations one behaviour of SpecLearn performs
MaxLearnOps == 5

\* strategy names recordSuccess is called with: the three strategies'
\* this.name and the literal of the direct extraction
StorableNames == {"vision", "semantic", "hybrid", "direct-dom"}

\* the site whose pattern is driven
LearnSite == 1

MissingFile == [kind |-> "missing", data |-> EmptyPatterns]
CorruptFile == [kind |-> "corrupt", data |-> EmptyPatterns]
JsonFile(ps) == [kind |-> "json", data |-> ps]

\* learned_patterns.json at process start
InitialFiles ==
  { MissingFile, CorruptFile,
    JsonFile([EmptyPatterns EXCEPT ![LearnSite] = LoadedPattern]) }

\* loadPatterns: entries of a readable file are set into the map; any error
\* is caught and the map is left as it was
loadPatterns(file, map) ==
  IF file.kind = "json"
  THEN [threw |-> FALSE,
        patterns |-> [k \in SiteIds |-> IF file.data[k].exists THEN file.data[k]
                                         ELSE map[k]]]
  ELSE [threw |-> FALSE, patterns |-> map]

\* what fs.writeFile did
WriteOutcomes == {"written", "failed", "truncated"}

\* savePatterns: mkdir and writeFile inside try/catch; a failed write leaves
\* the old file or a truncated one
savePatternsRethrows(map, file, outcome) ==
  [threw |-> outcome # "written", file |-> file]
savePatterns(map, file, outcome) ==
  [threw |-> FALSE,
   file |-> IF outcome = "written" THEN JsonFile(map)
            ELSE IF outcome = "truncated" THEN CorruptFile ELSE file]

NoPageAnalysis == [hasSchemaOrg |-> FALSE, hasSemanticHTML |-> FALSE,
                   productIndicators |-> <<>>, isReactApp |-> FALSE]

NoOp == [op |-> "none", chosen |-> "none", bypass |-> FALSE,
         pa |-> NoPageAnalysis, outcome |-> "none"]

LearnerReady == lMode = "learner" /\ lPc = "ready" /\ lOps < MaxLearnOps /\ ~lThrew

\* initialize(): await this.patternLearner.loadPatterns()
LearnLoad ==
  /\ lMode = "learner" /\ lPc = "new"
  /\ LET r == loadPatterns(lFile, lPatterns)
     IN /\ lPatterns' = r.patterns
        /\ lThrew' = r.threw
        /\ lLast' = [NoOp EXCEPT !.op = "load", !.outcome = lFile.kind]
  /\ lPc' = "ready"
  /\ UNCHANGED <<lMode, lFile, lFailures, lOps, psData, psMain, psBackup>>
  /\ UNCHANGED healVars /\ UNCHANGED runVars /\ UNCHANGED recVars /\ UNCHANGED svcVars

\* recordSuccess(context, strategy, products), with its save every fifth success
LearnSuccess ==
  /\ LearnerReady
  /\ \E name \in StorableNames, outcome \in WriteOutcomes :
       LET np == recordSuccess(lPatterns, LearnSite, name)
           saves == np[LearnSite].successCount % SaveEvery = 0
           w == savePatterns(np, lFile, outcome)
       IN /\ lPatterns' = np
          /\ lFile' = IF saves THEN w.file ELSE lFile
          /\ lThrew' = (saves /\ w.threw)
          /\ lLast' = [NoOp EXCEPT !.op = "recordSuccess", !.chosen = name,
                                   !.outcome = IF saves THEN outcome ELSE "none"]
  /\ lOps' = lOps + 1
  /\ UNCHANGED <<lMode, lPc, lFailures, psData, psMain, psBackup>>
  /\ UNCHANGED healVars /\ UNCHANGED runVars /\ UNCHANGED recVars /\ UNCHANGED svcVars

\* recordFailure(context, error)
LearnFailure ==
  /\ LearnerReady
  /\ lPatterns' = recordFailure(lPatterns, LearnSite)
  /\ lFailures' = IF lPatterns[LearnSite].exists THEN lFailures + 1 ELSE lFailures
  /\ lLast' = [NoOp EXCEPT !.op = "recordFailure"]
  /\ lOps' = lOps + 1
  /\ UNCHANGED <<lMode, lPc, lFile, lThrew, psData, psMain, psBackup>>
  /\ UNCHANGED healVars /\ UNCHANGED runVars /\ UNCHANGED recVars /\ UNCHANGED svcVars

\* getPattern and the strategy decision of _scrapeSiteInternal
LearnSelect ==
  /\ LearnerReady
  /\ \E pa \in PageAnalyses :
       lLast' = [NoOp EXCEPT !.op = "select",
                             !.chosen = SelectStrategy(lPatterns[LearnSite], pa),
                             !.bypass = UsesPattern(lPatterns[LearnSite]),
                             !.pa = pa]
  /\ lOps' = lOps + 1
  /\ UNCHANGED <<lMode, lPc, lFile, lPatterns, lFailures, lThrew, psData, psMain,
                 psBackup>>
  /\ UNCHANGED healVars /\ UNCHANGED runVars /\ UNCHANGED recVars /\ UNCHANGED svcVars

\* shutdown(): await this.patternLearner.savePatterns()
LearnShutdownSave ==
  /\ lMode = "learner" /\ lPc = "ready" /\ ~lThrew
  /\ \E outcome \in WriteOutcomes :
       LET w == savePatterns(lPatterns, lFile, outcome)
       IN /\ lFile' = w.file
          /\ lThrew' = w.threw
          /\ lLast' = [NoOp EXCEPT !.op = "save", !.outcome = outcome]
  /\ lPc' = "closed"
  /\ UNCHANGED <<lMode, lPatterns, lFailures, lOps, psData, psMain, psBackup>>
  /\ UNCHANGED healVars /\ UNCHANGED runVars /\ UNCHANGED recVars /\ UNCHANGED svcVars

\* ------------------------------------------------------------ PatternStore
\* PatternStore.load: the main file; if it exists but cannot be used, the
\* backup, which is then saved back; {} when neither can be used
StoreLoad(main, backup) ==
  IF main \in {"a", "b"} THEN [threw |-> FALSE, data |-> main, resave |-> FALSE]
  ELSE IF main = "missing" THEN [threw |-> FALSE, data |-> "{}", resave |-> FALSE]
  ELSE IF backup \in {"a", "b"} THEN [threw |-> FALSE, data |-> backup, resave |-> TRUE]
  ELSE [threw |-> FALSE, data |-> "{}", resave |-> FALSE]

\* PatternStore.save: copy main to the backup if it is there, write a temp
\* file, rename it over main; an error is caught and main is not touched
StoreSave(data, main, backup, outcome) ==
  LET nb == IF main # "missing" THEN main ELSE backup
  IN IF outcome = "written"
     THEN [threw |-> FALSE, main |-> data, backup |-> nb]
     ELSE [threw |-> FALSE, main |-> main, backup |-> nb]

\* await store.load()
PsLoad ==
  /\ lMode = "store" /\ lPc = "new"
  /\ \E outcome \in {"written", "failed"} :
       LET r == StoreLoad(psMain, psBackup)
           w == StoreSave(r.data, psMain, psBackup, outcome)
       IN /\ psData' = r.data
          /\ psMain' = IF r.resave THEN w.main ELSE psMain
          /\ psBackup' = IF r.resave THEN w.backup ELSE psBackup
          /\ lThrew' = (r.threw \/ (r.resave /\ w.threw))
          /\ lLast' = [NoOp EXCEPT !.op = "storeLoad",
                                   !.outcome = IF psMain \in {"a", "b"} THEN "main"
                                               ELSE IF psMain = "missing" THEN "fresh"
                                               ELSE IF psBackup \in {"a", "b"}
                                               THEN "backup" ELSE "unreadable"]
  /\ lPc' = "ready"
  /\ UNCHANGED <<lMode, lFile, lPatterns, lFailures, lOps>>
  /\ UNCHANGED healVars /\ UNCHANGED runVars /\ UNCHANGED recVars /\ UNCHANGED svcVars

\* store.set(key, value)
PsSet ==
  /\ lMode = "store" /\ lPc = "ready" /\ lOps < MaxLearnOps /\ ~lThrew
  /\ \E v \in {"a", "b"} : psData' = v
  /\ lLast' = [NoOp EXCEPT !.op = "storeSet"]
  /\ lOps' = lOps + 1
  /\ UNCHANGED <<lMode, lPc, lFile, lPatterns, lFailures, lThrew, psMain, psBackup>>
  /\ UNCHANGED healVars /\ UNCHANGED runVars /\ UNCHANGED recVars /\ UNCHANGED svcVars

\* await store.save()
PsSave ==
  /\ lMode = "store" /\ lPc = "ready" /\ lOps < MaxLearnOps /\ ~lThrew
  /\ \E outcome \in {"written", "failed"} :
       LET w == StoreSave(psData, psMain, psBackup, outcome)
       IN /\ psMain' = w.main
          /\ psBackup' = w.backup
          /\ lThrew' = w.threw
          /\ lLast' = [NoOp EXCEPT !.op = "storeSave", !.outcome = outcome]
  /\ lOps' = lOps + 1
  /\ UNCHANGED <<lMode, lPc, lFile, lPatterns, lFailures, psData>>
  /\ UNCHANGED healVars /\ UNCHANGED runVars /\ UNCHANGED recVars /\ UNCHANGED svcVars

InitLearn ==
  /\ HealIdle
  /\ llmConfig = [openaiKey |-> TRUE, anthropicKey |-> TRUE,
                  provider |-> "openai", fallbackProvider |-> "anthropic"]
  /\ NoRun
  /\ NoRecords
  /\ NoServices
  /\ lMode \in {"learner", "store"}
  /\ lPc = "new"
  /\ lPatterns = EmptyPatterns
  /\ lFailures = 0
  /\ lOps = 0
  /\ lLast = NoOp
  /\ lThrew = FALSE
  /\ psData = "{}"
  /\ IF lMode = "learner"
     THEN lFile \in InitialFiles /\ psMain = "missing" /\ psBackup = "missing"
     ELSE /\ lFile = MissingFile
          \* a store file is absent, not parseable, or has one of two contents
          /\ psMain \in {"missing", "corrupt", "a", "b"}
          /\ psBackup \in {"missing", "corrupt", "a", "b"}

NextLearn ==
  \/ LearnLoad
  \/ LearnSuccess
  \/ LearnFailure
  \/ LearnSelect
  \/ LearnShutdownSave
  \/ PsLoad
  \/ PsSet
  \/ PsSave

SpecLearn == InitLearn /\ [][NextLearn]_vars

\* =========================================================================
\* ProductValidator and the DOM extractors' dedup driven directly
\* =========================================================================

\* largest batch handed to filterProducts / number of anchors on the page
MaxBatch == 2

\* ProductValidator constructor defaults
MinNameLength == 5
MaxNameLength == 200
MinLetterCount == 3
MinPrice == 1
MaxPrice == 10000

\* product.name: absent (or not a string), or a string with trimLen
\* characters between pad characters of surrounding whitespace, letters of
\* them in [a-zA-Z], denied when it matches an invalidNamePatterns entry
StringName(n, w, l, d) ==
  [present |-> TRUE, trimLen |-> n, pad |-> w, letters |-> l, denied |-> d]

Names ==
  { [present |-> FALSE, trimLen |-> 0, pad |-> 0, letters |-> 0, denied |-> FALSE],
    StringName(MinNameLength - 1, 0, MinNameLength - 1, FALSE),
    StringName(MinNameLength, 0, MinLetterCount, FALSE),
    StringName(MinNameLength, 0, MinLetterCount - 1, FALSE),
    StringName(MaxNameLength, 2, MaxNameLength, FALSE),
    StringName(MaxNameLength + 1, 0, MaxNameLength + 1, FALSE),
    StringName(MinNameLength + 3, 0, MinNameLength + 2, TRUE) }

\* product.price: null / undefined, NaN, or a number
NumberPrice(v) == [kind |-> "number", value |-> v]

Prices ==
  { [kind |-> "null", value |-> 0], [kind |-> "NaN", value |-> 0],
    NumberPrice(50), NumberPrice(MaxPrice + 1) }

Product(name, url, price) ==
  [name |-> name, productUrl |-> url, price |-> price, source |-> "none"]

\* the products handed to the validator: every name with an acceptable URL
\* and price, and every URL (absent, http(s), another protocol) and price
\* with an acceptable name
Candidates ==
  { Product(name, "https", NumberPrice(50)) : name \in Names }
    \cup { Product(StringName(MinNameLength, 0, MinLetterCount, FALSE), url, price) :
             url \in {"none", "https", "ftp"}, price \in Prices }

\* isValidProduct(product).valid
isValidProduct(product) ==
  LET name == product.name
  IN /\ name.present
     /\ name.trimLen >= MinNameLength
     /\ name.trimLen <= MaxNameLength
     /\ ~name.denied
     /\ product.productUrl # "ftp"
     /\ ~( product.price.kind = "number"
           /\ (product.price.value < MinPrice \/ product.price.value > MaxPrice) )
     /\ name.letters >= MinLetterCount

\* filterProducts(products): the valid ones, pushed in order
filterProducts(products) == SelectSeq(products, isValidProduct)

\* cleanProducts: products with a name, the name trimmed and the provenance
\* added, then filterProducts
cleanProducts(products) ==
  LET named == SelectSeq(products, LAMBDA product : product.name.present)
      normalized == [i \in 1..Len(named) |->
                       [named[i] EXCEPT !.name.pad = 0, !.source = "site"]]
  IN filterProducts(normalized)

\* ---------------------------------------------------------------- dedup
\* link.href of a card: path (in one of two spellings that differ in case),
\* with or without a query string, with or without a fragment
\* a card of the page; usable when the checks between seenUrls.has and
\* seenUrls.add let it through
Elements ==
  [href : [path : {"p1", "p2"}, upper : BOOLEAN, query : BOOLEAN, frag : BOOLEAN],
   usable : BOOLEAN]

\* the branches of the page script: href.split('?')[0], and on the Next
\* branch href.split('#')[0].split('?')[0]

\* href.split('?')[0] cuts at the first '?', which also drops a fragment
\* that follows the query
StripUrl(branch, h) ==
  IF branch = "next" THEN [h EXCEPT !.query = FALSE, !.frag = FALSE]
  ELSE IF h.query THEN [h EXCEPT !.query = FALSE, !.frag = FALSE]
  ELSE h

\* cleanUrl = stripped href .toLowerCase()
cleanUrl(branch, h) == [StripUrl(branch, h) EXCEPT !.upper = FALSE]

\* if (seenUrls.has(cleanUrl)) return;
AlreadySeenNever(seenUrls, key) == FALSE
AlreadySeen(seenUrls, key) == key \in seenUrls

\* elements.forEach(...) over the first i cards: seenUrls and results
RECURSIVE ExtractLoop(_, _, _)
ExtractLoop(branch, els, i) ==
  IF i = 0 THEN [seenUrls |-> {}, results |-> <<>>]
  ELSE LET before == ExtractLoop(branch, els, i - 1)
           key == cleanUrl(branch, els[i].href)
       IN IF AlreadySeen(before.seenUrls, key) \/ ~els[i].usable
          THEN before
          ELSE [seenUrls |-> before.seenUrls \cup {key},
                results |-> Append(before.results, StripUrl(branch, els[i].href))]

RECURSIVE SeqsUpTo(_, _)
SeqsUpTo(S, n) ==
  IF n = 0 THEN {<<>>}
  ELSE LET shorter == SeqsUpTo(S, n - 1)
       IN shorter \cup { Append(q, x) : q \in shorter, x \in S }

\* ----------------------------------------------------------- fuzzyMatch
\* most words of a name handed to fuzzyMatch
MaxWords == 2

\* a word is the sequence of its characters; the words a name can hold: the
\* empty word (left by leading or trailing whitespace), words of at most 2
\* and of more than 2 characters, contained in one another or disjoint, and
\* spellings that differ in case only
FuzzyWords ==
  { <<>>,
    <<"a", "b">>,
    <<"A", "b">>,
    <<"a", "b", "c">>,
    <<"x", "a", "b", "c">>,
    <<"x", "y", "z">>,
    <<"y", "z">> }

\* str.toLowerCase()
toLowerCase(str) ==
  [i \in 1..Len(str) |-> [k \in 1..Len(str[i]) |-> IF str[i][k] = "A" THEN "a" ELSE str[i][k]]]

\* w.includes(word)
Includes(w, word) ==
  \E k \in 0..(Len(w) - Len(word)) : SubSeq(w, k + 1, k + Len(word)) = word

\* matches / Math.max(words1.length, words2.length), kept as a fraction
Score(m, d) == [matches |-> m, of |-> d]

\* if (s1 === s2) return 1;
SameStringNever(s1, s2) == FALSE
SameString(s1, s2) == s1 = s2

\* helpers.fuzzyMatch (minLen = 0) and AgentOrchestrator.fuzzyMatch, which
\* counts a word of str1 only when word.length > 2 (minLen = 2)
fuzzyMatch(str1, str2, minLen) ==
  IF str1 = << <<>> >> \/ str2 = << <<>> >> THEN Score(0, 1)
  ELSE LET s1 == toLowerCase(str1)
           s2 == toLowerCase(str2)
           matched == { i \in 1..Len(s1) :
                          /\ minLen = 0 \/ Len(s1[i]) > minLen
                          /\ \E j \in 1..Len(s2) :
                               Includes(s2[j], s1[i]) \/ Includes(s1[i], s2[j]) }
       IN IF SameString(s1, s2) THEN Score(1, 1)
          ELSE Score(Cardinality(matched), IF Len(s1) > Len(s2) THEN Len(s1) ELSE Len(s2))

\* fuzzyMatch of utils/helpers, or this.fuzzyMatch of the orchestrator
RecFuzzy ==
  /\ rMode = "fuzzy" /\ rPc = "input"
  /\ \E variant \in {"helper", "agent"} :
       /\ rOut' = fuzzyMatch(rIn[1], rIn[2], IF variant = "helper" THEN 0 ELSE 2)
       /\ rPc' = variant
  /\ UNCHANGED <<rMode, rIn, rBranch>>
  /\ UNCHANGED healVars /\ UNCHANGED runVars /\ UNCHANGED learnVars
  /\ UNCHANGED svcVars

\* ------------------------------------------------------ validateAndHeal
\* most products in the extraction handed to validateAndHeal
MaxExtracted == 3

\* config.agent.confidenceThreshold, in hundredths
ConfidenceThreshold == 70

\* extraction = { products, confidence }, with the number of products whose
\* productUrl starts with 'http'; the confidence is kept in hundredths, and
\* calculateConfidence of every extractor returns 0 for an empty product list
ExtractorResults ==
  { x \in [products : 0..MaxExtracted, withUrls : 0..MaxExtracted,
           confidence : {0, ConfidenceThreshold - 1, ConfidenceThreshold, 100}] :
      /\ x.withUrls <= x.products
      /\ x.products = 0 => x.confidence = 0 }

\* confidence >= this.config.confidenceThreshold && products.length > 0
ConfidentEnoughNever(x) == FALSE
ConfidentEnough(x) == x.confidence >= ConfidenceThreshold /\ x.products > 0

\* if (directProducts.length > 0) return directProducts;
DirectWinsNever(d) == FALSE
DirectWins(d) == d > 0

\* validateAndHeal up to its first await
VhBegin ==
  /\ rMode = "heal" /\ rPc = "input"
  /\ IF 2 * rIn.withUrls >= rIn.products /\ rIn.withUrls > 0
     THEN \E v \in 0..rIn.withUrls :
            /\ rPc' = "returned"
            /\ rOut' = [rOut EXCEPT !.result = v, !.from = "withUrls"]
     ELSE IF ConfidentEnough(rIn)
     THEN rPc' = "enrich" /\ UNCHANGED rOut
     ELSE /\ rOut' = [rOut EXCEPT !.attempts = @ + 1]
          /\ rPc' = IF rOut.attempts + 1 <= AgentMaxRetries THEN "heal" ELSE "lastDirect"
  /\ UNCHANGED <<rMode, rIn, rBranch>>
  /\ UNCHANGED healVars /\ UNCHANGED runVars /\ UNCHANGED learnVars
  /\ UNCHANGED svcVars

\* enrichProductsWithDOM (one direct extraction, which may throw), cleanProducts
VhEnrich ==
  /\ rMode = "heal" /\ rPc = "enrich"
  /\ \E d \in THROWN..MaxDirect :
       IF d = THROWN
       THEN /\ rPc' = "threw"
            /\ rOut' = [rOut EXCEPT !.directCalls = @ + 1, !.result = REJECT]
       ELSE \E v \in 0..rIn.products :
              /\ rPc' = "returned"
              /\ rOut' = [rOut EXCEPT !.directCalls = @ + 1, !.result = v,
                                      !.from = "enriched"]
  /\ UNCHANGED <<rMode, rIn, rBranch>>
  /\ UNCHANGED healVars /\ UNCHANGED runVars /\ UNCHANGED learnVars
  /\ UNCHANGED svcVars

\* selfHealer.heal settles: h products, 0 for the overall failure
VhHeal ==
  /\ rMode = "heal" /\ rPc = "heal"
  /\ \E h \in 0..MaxProducts :
       IF h > 0
       THEN \E v \in 0..h :
              /\ rPc' = "returned"
              /\ rOut' = [rOut EXCEPT !.healCalls = @ + 1, !.healed = h,
                                      !.result = v, !.from = "healed"]
       ELSE /\ rPc' = "lastDirect"
            /\ rOut' = [rOut EXCEPT !.healCalls = @ + 1, !.healed = 0]
  /\ UNCHANGED <<rMode, rIn, rBranch>>
  /\ UNCHANGED healVars /\ UNCHANGED runVars /\ UNCHANGED learnVars
  /\ UNCHANGED svcVars

\* the last extractProductsDirectly, then cleanProducts(products)
VhLastDirect ==
  /\ rMode = "heal" /\ rPc = "lastDirect"
  /\ \E d \in THROWN..MaxDirect :
       IF d = THROWN
       THEN /\ rPc' = "threw"
            /\ rOut' = [rOut EXCEPT !.directCalls = @ + 1, !.direct = THROWN,
                                    !.result = REJECT]
       ELSE IF DirectWins(d)
       THEN /\ rPc' = "returned"
            /\ rOut' = [rOut EXCEPT !.directCalls = @ + 1, !.direct = d,
                                    !.result = d, !.from = "direct"]
       ELSE \E v \in 0..rIn.products :
              /\ rPc' = "returned"
              /\ rOut' = [rOut EXCEPT !.directCalls = @ + 1, !.direct = d,
                                      !.result = v, !.from = "original"]
  /\ UNCHANGED <<rMode, rIn, rBranch>>
  /\ UNCHANGED healVars /\ UNCHANGED runVars /\ UNCHANGED learnVars
  /\ UNCHANGED svcVars

\* ------------------------------------------------ HybridStrategy.extract
\* most product links extractAllProductsFromDOM finds
MaxDom == 6

\* if (domProducts.length >= 5)
MinDomProducts == 5

\* visionAnalyzer.extract(page, context, { maxChunks: 3 })
MaxChunks == 3

DomSufficesNever(d) == FALSE
DomSuffices(d) == d >= MinDomProducts

\* extractAllProductsFromDOM, then the decision on its count
HyDom ==
  /\ rMode = "hybrid" /\ rPc = "input"
  /\ \E d \in THROWN..MaxDom :
       IF d = THROWN
       THEN rPc' = "threw" /\ rOut' = [rOut EXCEPT !.dom = THROWN, !.result = REJECT]
       ELSE IF DomSuffices(d)
       THEN /\ rPc' = "returned"
            /\ rOut' = [rOut EXCEPT !.dom = d, !.result = d, !.method = "dom-direct"]
       ELSE rPc' = "vision" /\ rOut' = [rOut EXCEPT !.dom = d]
  /\ UNCHANGED <<rMode, rIn, rBranch>>
  /\ UNCHANGED healVars /\ UNCHANGED runVars /\ UNCHANGED learnVars
  /\ UNCHANGED svcVars

\* visionAnalyzer.extract: k screenshots, one analyzeScreenshot call for
\* each (its error is caught), n products after deduplication
HyVision ==
  /\ rMode = "hybrid" /\ rPc = "vision"
  /\ \E k \in 0..MaxChunks :
       \E n \in (IF k = 0 THEN {0} ELSE 0..MaxProducts) :
         IF n > 0
         THEN /\ rPc' = "enrich"
              /\ rOut' = [rOut EXCEPT !.visionRan = TRUE, !.screenshots = k,
                                      !.llmCalls = k, !.vision = n]
         ELSE /\ rPc' = "returned"
              /\ rOut' = [rOut EXCEPT !.visionRan = TRUE, !.screenshots = k,
                                      !.llmCalls = k, !.result = rOut.dom,
                                      !.method = "fallback"]
  /\ UNCHANGED <<rMode, rIn, rBranch>>
  /\ UNCHANGED healVars /\ UNCHANGED runVars /\ UNCHANGED learnVars
  /\ UNCHANGED svcVars

\* enrichWithDOM: the DOM extractor once more, one record per vision product
HyEnrich ==
  /\ rMode = "hybrid" /\ rPc = "enrich"
  /\ \E d \in THROWN..MaxDom :
       IF d = THROWN
       THEN rPc' = "threw" /\ rOut' = [rOut EXCEPT !.result = REJECT]
       ELSE /\ rPc' = "returned"
            /\ rOut' = [rOut EXCEPT !.result = rOut.vision, !.method = "vision-enriched"]
  /\ UNCHANGED <<rMode, rIn, rBranch>>
  /\ UNCHANGED healVars /\ UNCHANGED runVars /\ UNCHANGED learnVars
  /\ UNCHANGED svcVars

\* productValidator.filterProducts(batch)
RecFilter ==
  /\ rMode = "validate" /\ rPc = "input"
  /\ rOut' = filterProducts(rIn)
  /\ rPc' = "filtered"
  /\ UNCHANGED <<rMode, rIn, rBranch>>
  /\ UNCHANGED healVars /\ UNCHANGED runVars /\ UNCHANGED learnVars
  /\ UNCHANGED svcVars

\* agent.cleanProducts(batch, context)
RecClean ==
  /\ rMode = "validate" /\ rPc = "input"
  /\ rOut' = cleanProducts(rIn)
  /\ rPc' = "cleaned"
  /\ UNCHANGED <<rMode, rIn, rBranch>>
  /\ UNCHANGED healVars /\ UNCHANGED runVars /\ UNCHANGED learnVars
  /\ UNCHANGED svcVars

\* the page script of extractProductsDirectly / extractAllProductsFromDOM
RecExtract ==
  /\ rMode = "dedup" /\ rPc = "input"
  /\ rOut' = ExtractLoop(rBranch, rIn, Len(rIn)).results
  /\ rPc' = "deduped"
  /\ UNCHANGED <<rMode, rIn, rBranch>>
  /\ UNCHANGED healVars /\ UNCHANGED runVars /\ UNCHANGED learnVars
  /\ UNCHANGED svcVars

\* the same loop over the batch it returned
RecExtractAgain ==
  /\ rMode = "dedup" /\ rPc = "deduped"
  /\ LET cards == [i \in 1..Len(rOut) |-> [href |-> rOut[i], usable |-> TRUE]]
     IN /\ rIn' = cards
        /\ rOut' = ExtractLoop(rBranch, cards, Len(cards)).results
  /\ rPc' = "again"
  /\ UNCHANGED <<rMode, rBranch>>
  /\ UNCHANGED healVars /\ UNCHANGED runVars /\ UNCHANGED learnVars
  /\ UNCHANGED svcVars

InitRecords ==
  /\ HealIdle
  /\ llmConfig = [openaiKey |-> TRUE, anthropicKey |-> TRUE,
                  provider |-> "openai", fallbackProvider |-> "anthropic"]
  /\ NoRun
  /\ NoLearn
  /\ NoServices
  /\ rMode \in {"validate", "dedup", "fuzzy", "heal", "hybrid"}
  /\ rPc = "input"
  /\ rOut = CASE rMode = "heal" ->
                 \* context.attempts is 0, nothing was called
                 [attempts |-> 0, healCalls |-> 0, directCalls |-> 0, healed |-> NONE,
                  direct |-> NONE, result |-> NONE, from |-> "none"]
            [] rMode = "hybrid" ->
                 [dom |-> NONE, visionRan |-> FALSE, screenshots |-> 0, llmCalls |-> 0,
                  vision |-> 0, result |-> NONE, method |-> "none"]
            [] OTHER -> <<>>
  /\ CASE rMode = "validate" ->
            rIn \in SeqsUpTo(Candidates, MaxBatch) /\ rBranch = "none"
       [] rMode = "dedup" ->
            rIn \in SeqsUpTo(Elements, MaxBatch) /\ rBranch \in {"generic", "next"}
       [] rMode = "fuzzy" ->
            \* a name as str.split(/\s+/) sees it: its words in order; '' is
            \* one empty word
            /\ rIn \in (SeqsUpTo(FuzzyWords, MaxWords) \ {<<>>})
                        \X (SeqsUpTo(FuzzyWords, MaxWords) \ {<<>>})
            /\ rBranch = "none"
       [] rMode = "heal" ->
            rIn \in ExtractorResults /\ rBranch = "none"
       [] rMode = "hybrid" ->
            rIn = <<>> /\ rBranch = "none"

NextRecords ==
  \/ RecFilter
  \/ RecClean
  \/ RecExtract
  \/ RecExtractAgain
  \/ RecFuzzy
  \/ VhBegin
  \/ VhEnrich
  \/ VhHeal
  \/ VhLastDirect
  \/ HyDom
  \/ HyVision
  \/ HyEnrich

SpecRecords == InitRecords /\ [][NextRecords]_vars

\* =========================================================================
\* BrowserManager's page pool and CronManager driven directly
\* =========================================================================

\* polls of waitForAvailablePage (one every 500 ms) its timeout allows
MaxPolls == 2

\* options.maxConcurrentPages || 3
MaxConcurrentPages == 3

\* triggers (cron ticks and runNow calls) that arrive
MaxTriggers == 3

\* newPage up to its first await: with a full pool it goes to
\* waitForAvailablePage, whose first test finds the pool still full
NewPageBegin(c) ==
  /\ svcMode = "pool" /\ bmPc[c] = "idle"
  /\ IF Cardinality(bmPages) >= MaxConcurrentPages
     THEN bmPc' = [bmPc EXCEPT ![c] = "waiting"] /\ bmWaited' = [bmWaited EXCEPT ![c] = 0]
     ELSE bmPc' = [bmPc EXCEPT ![c] = "creating"] /\ UNCHANGED bmWaited
  /\ UNCHANGED <<svcMode, bmPages>> /\ UNCHANGED <<isRunning, cronPc, lastRunResult>>
  /\ UNCHANGED healVars /\ UNCHANGED runVars /\ UNCHANGED learnVars /\ UNCHANGED recVars

\* waitForAvailablePage after a delay(500): leave the loop when a slot is
\* free, throw when the timeout has passed, else wait again
WaitPoll(c) ==
  /\ svcMode = "pool" /\ bmPc[c] = "waiting"
  /\ IF Cardinality(bmPages) < MaxConcurrentPages
     THEN bmPc' = [bmPc EXCEPT ![c] = "creating"] /\ bmWaited' = [bmWaited EXCEPT ![c] = 0]
     ELSE IF bmWaited[c] + 1 > MaxPolls
     THEN bmPc' = [bmPc EXCEPT ![c] = "failed"] /\ bmWaited' = [bmWaited EXCEPT ![c] = @ + 1]
     ELSE bmWaited' = [bmWaited EXCEPT ![c] = @ + 1] /\ UNCHANGED bmPc
  /\ UNCHANGED <<svcMode, bmPages>> /\ UNCHANGED <<isRunning, cronPc, lastRunResult>>
  /\ UNCHANGED healVars /\ UNCHANGED runVars /\ UNCHANGED learnVars /\ UNCHANGED recVars

\* rest of newPage: browser.newPage() and the page set-up are awaited, then
\* this.pages.set(pageId, page); an error in between leaves no entry
NewPageCreate(c) ==
  /\ svcMode = "pool" /\ bmPc[c] = "creating"
  /\ \E ok \in BOOLEAN :
       IF ok
       THEN bmPages' = bmPages \cup {c} /\ bmPc' = [bmPc EXCEPT ![c] = "open"]
       ELSE bmPc' = [bmPc EXCEPT ![c] = "failed"] /\ UNCHANGED bmPages
  /\ UNCHANGED <<svcMode, bmWaited>> /\ UNCHANGED <<isRunning, cronPc, lastRunResult>>
  /\ UNCHANGED healVars /\ UNCHANGED runVars /\ UNCHANGED learnVars /\ UNCHANGED recVars

\* closePage(page)
ClosePage(c) ==
  /\ svcMode = "pool" /\ bmPc[c] = "open"
  /\ bmPages' = closePage(bmPages, c)
  /\ bmPc' = [bmPc EXCEPT ![c] = "idle"]
  /\ UNCHANGED <<svcMode, bmWaited>> /\ UNCHANGED <<isRunning, cronPc, lastRunResult>>
  /\ UNCHANGED healVars /\ UNCHANGED runVars /\ UNCHANGED learnVars /\ UNCHANGED recVars

\* --------------------------------------------------------- CronManager
\* if (this.isRunning) return;
AlreadyRunningNever(flag) == FALSE
AlreadyRunning(flag) == flag

\* runs between "this.isRunning = true" and the finally block
ActiveRuns == { t \in DOMAIN cronPc : cronPc[t] \in {"running", "notify"} }

\* runScraper up to "await this.currentRun", called by a cron tick or runNow
CronTrigger(t) ==
  /\ svcMode = "cron" /\ cronPc[t] = "idle"
  /\ IF AlreadyRunning(isRunning)
     THEN cronPc' = [cronPc EXCEPT ![t] = "skipped"] /\ UNCHANGED isRunning
     ELSE cronPc' = [cronPc EXCEPT ![t] = "running"] /\ isRunning' = TRUE
  /\ UNCHANGED <<svcMode, lastRunResult>> /\ UNCHANGED <<bmPc, bmWaited, bmPages>>
  /\ UNCHANGED healVars /\ UNCHANGED runVars /\ UNCHANGED learnVars /\ UNCHANGED recVars

\* agent.run() settles: success goes through finally, an error to the catch
\* block, which awaits the error notification
CronRunSettles(t) ==
  /\ svcMode = "cron" /\ cronPc[t] = "running"
  /\ \E ok \in BOOLEAN :
       IF ok
       THEN /\ lastRunResult' = "success"
            /\ isRunning' = FALSE
            /\ cronPc' = [cronPc EXCEPT ![t] = "done"]
       ELSE /\ lastRunResult' = "failed"
            /\ cronPc' = [cronPc EXCEPT ![t] = "notify"]
            /\ UNCHANGED isRunning
  /\ UNCHANGED svcMode /\ UNCHANGED <<bmPc, bmWaited, bmPages>>
  /\ UNCHANGED healVars /\ UNCHANGED runVars /\ UNCHANGED learnVars /\ UNCHANGED recVars

\* notifyError settles (its error is caught), then finally
CronNotifySettles(t) ==
  /\ svcMode = "cron" /\ cronPc[t] = "notify"
  /\ isRunning' = FALSE
  /\ cronPc' = [cronPc EXCEPT ![t] = "done"]
  /\ UNCHANGED <<svcMode, lastRunResult>> /\ UNCHANGED <<bmPc, bmWaited, bmPages>>
  /\ UNCHANGED healVars /\ UNCHANGED runVars /\ UNCHANGED learnVars /\ UNCHANGED recVars

InitServices ==
  /\ HealIdle
  /\ llmConfig = [openaiKey |-> TRUE, anthropicKey |-> TRUE,
                  provider |-> "openai", fallbackProvider |-> "anthropic"]
  /\ NoRun
  /\ NoLearn
  /\ NoRecords
  /\ svcMode \in {"pool", "cron"}
  \* concurrent users of the page pool: one more than the pool admits
  /\ bmPc = [c \in 1..(MaxConcurrentPages + 1) |-> "idle"]
  /\ bmWaited = [c \in 1..(MaxConcurrentPages + 1) |-> 0]
  /\ bmPages = {}
  /\ isRunning = FALSE
  /\ cronPc = [t \in 1..MaxTriggers |-> "idle"]
  /\ lastRunResult = "none"

NextServices ==
  \/ \E c \in DOMAIN bmPc : NewPageBegin(c)
  \/ \E c \in DOMAIN bmPc : WaitPoll(c)
  \/ \E c \in DOMAIN bmPc : NewPageCreate(c)
  \/ \E c \in DOMAIN bmPc : ClosePage(c)
  \/ \E t \in DOMAIN cronPc : CronTrigger(t)
  \/ \E t \in DOMAIN cronPc : CronRunSettles(t)
  \/ \E t \in DOMAIN cronPc : CronNotifySettles(t)

SpecServices == InitServices /\ [][NextServices]_vars

\* ------------------------------------------------------------------ claims

\* C1: heal invokes its stages in the fixed order alternative-selectors,
\* semantic-html, schema-org, llm-extraction, each at most once (so at most 4
\* invocations however many throw); a later stage runs only if every earlier
\* one threw or returned no products, and heal stops at the first stage that
\* returns success with at least one product.
C1_CascadeOrder ==
  /\ Len(hInvoked) <= 4
  /\ \A i \in 1..Len(hInvoked) : hInvoked[i] = StageOrder[i]
  /\ \A i \in 1..Len(hOutcomes) :
       /\ i < Len(hInvoked) => hOutcomes[i] \in {"throw", "empty"}
       /\ hOutcomes[i] = "products" =>
            /\ hPc = "returned"
            /\ i = Len(hInvoked)
            /\ hResult.success /\ hResult.products > 0

\* a heal call in which the first stage threw, two more found nothing and the
\* fourth stage produced the result
C1_Witness ==
  /\ hPc = "returned"
  /\ hInvoked = StageOrder
  /\ hOutcomes[1] = "throw"
  /\ hOutcomes[4] = "products"

\* C2: heal never throws; a throwing or empty stage only advances the cascade,
\* and heal returns the overall-failure value exactly when all four stages
\* threw or produced no products.
C2_HealNeverThrows ==
  /\ hPc # "threw"
  /\ hPc = "returned" =>
       ( hResult = HealFailure
         <=> /\ Len(hOutcomes) = 4
             /\ \A i \in 1..4 : hOutcomes[i] \in {"throw", "empty"} )

\* overall failure after stages that threw and stages that found nothing,
\* the last one because the language-model call was rejected
C2_Witness ==
  /\ hPc = "returned"
  /\ hResult = HealFailure
  /\ \E i \in 1..3 : hOutcomes[i] = "throw"
  /\ \E i \in 1..3 : hOutcomes[i] = "empty"
  /\ hOutcomes[4] = "empty"

\* C3 (as claimed): scrapeSite rejects only when the navigation retries are
\* exhausted or the healing cascade is exhausted.
C3_RejectsOnlyNavOrCascade ==
  \A k \in CallIds :
    calls[k].state = "rejected" =>
      calls[k].why = "navigation" \/ calls[k].healed = "exhausted"

\* C3 (amended): scrapeSite rejects only when the per-site timeout fires, or
\* when page acquisition, navigation (retries exhausted) or a DOM extractor
\* throws on a site whose ScrapingBee fallback is not usable; an exhausted
\* healing cascade, a language-model error, validation rejects and a
\* pattern-store error never reject the call.
C3_RejectCauses ==
  \A k \in CallIds :
    calls[k].state = "rejected" =>
      \/ calls[k].why = "timeout"
      \/ /\ calls[k].why \in {"newPage", "navigation", "extractor"}
         /\ ~(sites[calls[k].site].scrapingBeeFallback /\ sbConfigured)

\* a call rejected because an extractor threw
C3_Witness ==
  \E k \in CallIds : calls[k].state = "rejected" /\ calls[k].why = "extractor"

\* C4 (as claimed): when navigation failed on every attempt scrapeSite
\* rejects, whatever the site configuration.
C4_NavigationFailureRejects ==
  \A k \in CallIds :
    calls[k].state \in {"resolved", "rejected"} /\ calls[k].why = "navigation"
      => calls[k].state = "rejected"

\* C4 (amended): navigateWithRetry makes at most maxRetries passes; when every
\* attempt failed, scrapeSite rejects for a site without a usable ScrapingBee
\* fallback, and for a site with one it resolves with the fallback's list
\* (empty when the fallback fails too).
C4_NavigationFailure ==
  \A k \in CallIds :
    /\ flows[k].attempt <= NavMaxRetries
    /\ calls[k].state \in {"resolved", "rejected"} /\ calls[k].why = "navigation" =>
         ( calls[k].state = "resolved"
           <=> sites[calls[k].site].scrapingBeeFallback /\ sbConfigured )

\* navigation failed on every attempt of a site with a usable fallback and the
\* call resolved
C4_Witness ==
  \E k \in CallIds :
    /\ calls[k].why = "navigation"
    /\ calls[k].state = "resolved"
    /\ sites[calls[k].site].scrapingBeeFallback

\* C5 (as claimed): at most one site-scrape flow is in flight at any moment, a
\* new scrapeSite call starts only after the previous flow has finished.
C5_OneFlowInFlight ==
  Cardinality({k \in CallIds : flows[k].pc \notin {"idle", "done"}}) <= 1

\* C6: a pending scrapeSite call never outlives the per-site timeout, and a
\* call the timeout rejected is recorded as a category error while the run
\* goes on to the next category or to its end.
C6_TimeoutSettles ==
  /\ [](CurrentPending => elapsed <= ScrapeTimeout)
  /\ [][ runPc = "await" /\ runPc' # "await" /\ calls[started].why = "timeout"
           => started \in catErrors' /\ runPc' \in {"loop", "finally"} ]_vars

\* the timeout rejected a call whose extraction is still running, and the run
\* has started the next category
C6_Witness ==
  \E k \in CallIds :
    /\ k < started
    /\ k \in catErrors
    /\ flows[k].pc \notin {"idle", "done"}

\* C7 (as claimed): after the shutdown signal no new scrape is started, and the
\* browser is not closed while a scrapeSite call is still pending.
C7_SignalStopsStarts ==
  [][ /\ shuttingDown => started' = started
      /\ shuttingDown /\ browserOpen /\ ~browserOpen' => ~CurrentPending ]_vars

\* C8 (as claimed): whenever the process has terminated, Pattern Memory was
\* saved and then the browser was closed.
C8_SaveThenClose ==
  exited => sdLog = <<"save", "close">>

\* C9 (as claimed): the language-model calls of the whole run, over all
\* clients, never exceed the per-run budget.
C9_RunBudget ==
  callCount["healer"] + callCount["vision"] <= MaxCallsPerRun

\* C10: per complete / analyzeImage call the fallback provider is requested at
\* most once and only after the primary failed; a primary success never
\* reaches the fallback; a failed fallback rejects the call; at most two
\* provider requests per call.
C10_FallbackOnce ==
  call.pc # "none" =>
    /\ call.fallbacks <= 1
    /\ call.requests <= 2
    /\ call.fallbacks = 1 => call.primary = "failed"
    /\ call.primary = "ok" => call.fallbacks = 0 /\ call.outcome = "resolved"
    /\ call.why = "fallback" => call.outcome = "rejected" /\ call.pc = "done"
    /\ call.why = "budget" => call.requests = 0 /\ call.outcome = "rejected"

\* a call whose primary and fallback providers both failed
C10_Witness ==
  /\ call.pc = "done"
  /\ call.primary = "failed"
  /\ call.fallbacks = 1
  /\ call.outcome = "rejected"


\* C11 (as claimed): when the site's pattern has confidence above 0.8 the
\* strategy that runs is the one recordSuccess last stored in the pattern,
\* whatever name was stored.
C11_PatternStrategyReused ==
  lLast.op = "select" /\ lLast.bypass =>
    lLast.chosen = lPatterns[LearnSite].strategy

\* C12: choose decides in the order structured data, semantic markup, a card
\* pattern with at least 3 matches, single-page-app markers, default; an
\* earlier condition wins over every later one.
C12_ChooseOrder ==
  lLast.op = "select" /\ ~lLast.bypass =>
    LET pa == lLast.pa
        grid == \E i \in 1..Len(pa.productIndicators) :
                   pa.productIndicators[i] >= MinGridCount
    IN /\ pa.hasSchemaOrg => lLast.chosen = "semantic"
       /\ ~pa.hasSchemaOrg /\ pa.hasSemanticHTML => lLast.chosen = "semantic"
       /\ ~pa.hasSchemaOrg /\ ~pa.hasSemanticHTML /\ grid => lLast.chosen = "hybrid"
       /\ ~pa.hasSchemaOrg /\ ~pa.hasSemanticHTML /\ ~grid /\ pa.isReactApp
            => lLast.chosen = "vision"
       /\ ~pa.hasSchemaOrg /\ ~pa.hasSemanticHTML /\ ~grid /\ ~pa.isReactApp
            => lLast.chosen = "hybrid"

\* choose ran on a page with a product grid and single-page-app markers and
\* the grid won
C12_Witness ==
  /\ lLast.op = "select" /\ ~lLast.bypass
  /\ ~lLast.pa.hasSchemaOrg /\ ~lLast.pa.hasSemanticHTML
  /\ lLast.pa.productIndicators = <<3, 2>>
  /\ lLast.pa.isReactApp
  /\ lLast.chosen = "hybrid"

\* C13 (as claimed): every scrapeSite attempt for a site that has a pattern
\* ends with a recordSuccess or recordFailure for the site: the step in which
\* the flow leaves its try block, and the step in which the timeout ends the
\* call, change the site's pattern.
C13_UpdatedEveryAttempt ==
  [][ \A f \in CallIds :
        /\ flows[f].pc \notin {"idle", "finally", "done"}
             /\ flows'[f].pc = "finally"
             /\ patterns[calls[f].site].exists
           => patterns'[calls[f].site] # patterns[calls[f].site]
        /\ calls[f].state = "pending"
             /\ calls'[f].state = "rejected" /\ calls'[f].why = "timeout"
             /\ patterns[calls[f].site].exists
           => patterns'[calls[f].site] # patterns[calls[f].site] ]_vars

\* C14: after any sequence of recordSuccess and recordFailure calls every
\* stored pattern has a confidence within [0, 1].
C14_ConfidenceRange ==
  lMode = "learner" =>
    \A k \in SiteIds : lPatterns[k].confidence >= 0 /\ lPatterns[k].confidence <= Scale

\* a pattern that went through failures and then a success
C14_Witness ==
  /\ lMode = "learner"
  /\ lFailures >= 2
  /\ lLast.op = "recordSuccess"
  /\ lPatterns[LearnSite].confidence > Scale \div 2

\* C15 (as claimed): the pattern is flagged needsRelearning exactly when more
\* than 3 failures have been recorded for the site and its confidence is
\* below 0.3.
C15_FlaggedAtThresholds ==
  lMode = "learner" /\ lPatterns[LearnSite].exists =>
    ( lPatterns[LearnSite].needsRelearning
      <=> lFailures > 3 /\ 10 * lPatterns[LearnSite].confidence < 3 * Scale )

\* C16: no load or save of a pattern store throws to its caller; a store that
\* cannot be read leaves the empty map; a store that cannot be written leaves
\* the in-memory map as it was; recordSuccess, recordFailure and the shutdown
\* save complete in both cases.
C16_PersistenceNeverBlocks ==
  /\ [](~lThrew)
  /\ [](lLast.op = "load" /\ lLast.outcome # "json" => lPatterns = EmptyPatterns)
  /\ [](lLast.op = "storeLoad" /\ lLast.outcome \in {"fresh", "unreadable"}
          => psData = "{}")
  /\ [][ lLast'.outcome \in {"failed", "truncated"} =>
           /\ lLast'.op = "save" => lPatterns' = lPatterns /\ lPc' = "closed"
           /\ lLast'.op = "recordSuccess" =>
                lPatterns' = recordSuccess(lPatterns, LearnSite, lLast'.chosen)
           /\ lLast'.op = "storeSave" => psData' = psData ]_vars

\* the file could not be read at start and the shutdown save failed as well
C16_Witness ==
  /\ lMode = "learner" /\ lPc = "closed"
  /\ lLast.op = "save" /\ lLast.outcome = "truncated"
  /\ lFile = CorruptFile
  /\ lPatterns[LearnSite].exists
  /\ lPatterns[LearnSite].successCount = 1


\* C17 (as claimed): every record filterProducts or cleanProducts returns has
\* a name of 5 to 200 characters with at least 3 letters and a price that is
\* absent or a number within [1, 10000], and what filterProducts returns is a
\* sub-list of its input in the original order.
C17_ValidRecords ==
  rMode = "validate" /\ rPc \in {"filtered", "cleaned"} =>
    /\ \A i \in 1..Len(rOut) :
         /\ rOut[i].name.present
         /\ rOut[i].name.trimLen + rOut[i].name.pad >= MinNameLength
         /\ rOut[i].name.trimLen + rOut[i].name.pad <= MaxNameLength
         /\ rOut[i].name.letters >= MinLetterCount
         /\ \/ rOut[i].price.kind = "null"
            \/ /\ rOut[i].price.kind = "number"
               /\ rOut[i].price.value >= MinPrice
               /\ rOut[i].price.value <= MaxPrice
    /\ rPc = "filtered" =>
         \E keep \in SUBSET (1..Len(rIn)) :
           /\ Len(rOut) = Cardinality(keep)
           /\ \A i \in 1..Len(rOut) :
                \E j \in keep :
                  /\ rOut[i] = rIn[j]
                  /\ Cardinality({k \in keep : k < j}) = i - 1

\* C18: the batch of the DOM extractor holds no two records whose detail-page
\* URLs are equal after normalization (query cut off, lower case), and the
\* dedup loop applied to its own output returns that output.
C18_DedupIdempotent ==
  rMode = "dedup" =>
    /\ rPc \in {"deduped", "again"} =>
         \A i, j \in 1..Len(rOut) :
           i # j => [rOut[i] EXCEPT !.upper = FALSE] # [rOut[j] EXCEPT !.upper = FALSE]
    /\ rPc = "again" => rOut = [i \in 1..Len(rIn) |-> rIn[i].href]

\* two usable cards whose links differ were extracted as one record
C18_Witness ==
  /\ rMode = "dedup" /\ rPc = "deduped"
  /\ Len(rIn) = 2 /\ rIn[1].usable /\ rIn[2].usable
  /\ rIn[1].href # rIn[2].href
  /\ Len(rOut) = 1


\* C19 (as claimed): when the alternate-selector stage is the first stage of
\* the cascade to produce records, heal returns those records and the result
\* it returns carries a tag naming the alternate-selector stage.
C19_AlternateStageTagged ==
  hPc = "returned" /\ Len(hOutcomes) = 1 /\ hOutcomes[1] = "products" =>
    /\ hResult.success
    /\ hResult.products > 0
    /\ "strategy" \in DOMAIN hResult
    /\ hResult.strategy = "alternative-selectors"


C21_FuzzyMatchEnds ==
  rMode = "fuzzy" /\ rPc \in {"helper", "agent"} =>
    /\ rIn[1] = rIn[2] => rOut = Score(1, 1)
    /\ ( \A i \in 1..Len(rIn[1]), j \in 1..Len(rIn[2]) :
           toLowerCase(rIn[1])[i] # toLowerCase(rIn[2])[j] )
       => rOut.matches = 0

\* C21 (amended): fuzzyMatch(a, a) = 1 for every non-empty name a, and
\* fuzzyMatch(a, b) = 0 whenever, case aside, no word of a contains or is
\* contained in a word of b (an empty word left by leading or trailing
\* whitespace is contained in every word).
C21_FuzzyMatchContainment ==
  rMode = "fuzzy" /\ rPc \in {"helper", "agent"} =>
    /\ rIn[1] = rIn[2] /\ rIn[1] # << <<>> >> => rOut = Score(1, 1)
    /\ ( \A i \in 1..Len(rIn[1]), j \in 1..Len(rIn[2]) :
           /\ ~Includes(toLowerCase(rIn[1])[i], toLowerCase(rIn[2])[j])
           /\ ~Includes(toLowerCase(rIn[2])[j], toLowerCase(rIn[1])[i]) )
       => rOut.matches = 0

\* the orchestrator's fuzzyMatch scored a name of short words against itself
\* as 1
C21_Witness ==
  /\ rMode = "fuzzy" /\ rPc = "agent"
  /\ rIn[1] = rIn[2]
  /\ \A i \in 1..Len(rIn[1]) : Len(rIn[1][i]) <= 2 /\ Len(rIn[1][i]) > 0
  /\ rOut = Score(1, 1)


\* C22: validateAndHeal calls the healing cascade only when the records with
\* a URL are fewer than half of the products (or none) and the confidence is
\* below the threshold; with sufficient URL coverage, or with a confidence at
\* the threshold and a non-empty product list, heal is never called.
C22_HealOnlyWhenLow ==
  rMode = "heal" =>
    /\ rPc = "heal" \/ rOut.healCalls > 0
       => /\ 2 * rIn.withUrls < rIn.products \/ rIn.withUrls = 0
          /\ rIn.confidence < ConfidenceThreshold
    /\ \/ 2 * rIn.withUrls >= rIn.products /\ rIn.withUrls > 0
       \/ rIn.confidence >= ConfidenceThreshold /\ rIn.products > 0
       => rPc # "heal" /\ rOut.healCalls = 0

\* heal was called for an extraction of 3 products, 1 of them with a URL,
\* whose confidence is just below the threshold
C22_Witness ==
  /\ rMode = "heal" /\ rOut.healCalls = 1
  /\ rIn.products = 3 /\ rIn.withUrls = 1
  /\ rIn.confidence = ConfidenceThreshold - 1

\* C23 (as claimed): once the cascade has reported overall failure,
\* validateAndHeal makes exactly one more direct extraction and returns: that
\* pass's products if there are any, else the validated products of the
\* original extraction; heal is called at most once.
C23_LastPassReturns ==
  rMode = "heal" =>
    /\ rOut.healCalls <= 1
    /\ rOut.healed = 0 /\ rPc # "lastDirect"
       => /\ rPc = "returned"
          /\ rOut.directCalls = 1
          /\ IF rOut.direct > 0
             THEN rOut.result = rOut.direct /\ rOut.from = "direct"
             ELSE rOut.result <= rIn.products /\ rOut.from = "original"

\* C23 (amended): once the cascade has reported overall failure,
\* validateAndHeal makes exactly one more direct extraction; if that pass
\* throws, validateAndHeal rejects with its error; otherwise it returns that
\* pass's products if there are any, else the validated products of the
\* original extraction; heal is called at most once.
C23_LastPassReturnsOrThrows ==
  rMode = "heal" =>
    /\ rOut.healCalls <= 1
    /\ rOut.healed = 0 /\ rPc # "lastDirect"
       => /\ rOut.directCalls = 1
          /\ rPc = "threw" <=> rOut.direct = THROWN
          /\ rPc = "threw" => rOut.result = REJECT
          /\ rPc = "returned" =>
               IF rOut.direct > 0
               THEN rOut.result = rOut.direct /\ rOut.from = "direct"
               ELSE rOut.result <= rIn.products /\ rOut.from = "original"

\* heal failed and the last direct pass supplied the result
C23_Witness ==
  /\ rMode = "heal" /\ rPc = "returned"
  /\ rOut.healed = 0 /\ rOut.directCalls = 1
  /\ rOut.direct = MaxDirect /\ rOut.result = MaxDirect


\* C24: HybridStrategy.extract runs the DOM extractor first; with at least 5
\* DOM records it returns them without a screenshot or a language-model
\* call, and the visual extractor runs only after a DOM pass that found
\* fewer than 5 records.
C24_DomFirst ==
  rMode = "hybrid" =>
    /\ rPc # "input" => rOut.dom # NONE
    /\ rOut.dom >= MinDomProducts
       => /\ rPc = "returned"
          /\ rOut.result = rOut.dom /\ rOut.method = "dom-direct"
          /\ ~rOut.visionRan /\ rOut.screenshots = 0 /\ rOut.llmCalls = 0
    /\ rPc = "vision" \/ rOut.visionRan
       => rOut.dom >= 0 /\ rOut.dom < MinDomProducts

\* exactly 5 DOM records were returned as they are
C24_Witness ==
  /\ rMode = "hybrid" /\ rPc = "returned"
  /\ rOut.dom = MinDomProducts /\ rOut.result = MinDomProducts
  /\ ~rOut.visionRan


\* C25: recordSuccess sets the confidence to 0.3 + 0.7 * c and recordFailure
\* to 0.7 * c, c being the pattern's previous confidence, or 0.5 for a
\* success of a site without a pattern; a success never lowers and a failure
\* never raises the confidence.
C25_EmaRule ==
  [][ lMode = "learner" /\ lOps' # lOps =>
        LET old == lPatterns[LearnSite]
            new == lPatterns'[LearnSite]
            c == IF old.exists THEN old.confidence ELSE Scale \div 2
        IN /\ lLast'.op = "recordSuccess"
              => /\ new.confidence = (3 * Scale + 7 * c) \div 10
                 /\ old.exists => new.confidence >= old.confidence
           /\ lLast'.op = "recordFailure" /\ old.exists
              => /\ new.confidence = (7 * old.confidence) \div 10
                 /\ new.confidence <= old.confidence ]_vars

\* a first success (0.65) followed by a failure (0.455)
C25_Witness ==
  /\ lMode = "learner"
  /\ lLast.op = "recordFailure"
  /\ lPatterns[LearnSite].successCount = 1
  /\ lPatterns[LearnSite].failureCount = 1
  /\ 1000 * lPatterns[LearnSite].confidence = 455 * Scale


\* C27: the page a site-scrape took from newPage is out of the pool when its
\* internal flow settles, whichever way the flow ends: normal return, early
\* return on a bot-detection page, return through the ScrapingBee fallback,
\* or thrown error.
C27_PageReleased ==
  /\ [](\A f \in DOMAIN flows : flows[f].pc \in {"idle", "begin", "done"} => f \notin pages)
  /\ [][ \A f \in DOMAIN flows :
           flows[f].pc # "done" /\ flows'[f].pc = "done" => f \notin pages' ]_vars

\* a flow that held a page ended by a thrown extractor error while the
\* browser is still open, and its page is gone from the pool
C27_Witness ==
  \E f \in DOMAIN flows :
    /\ flows[f].pc = "done"
    /\ calls[f].state = "rejected" /\ calls[f].why = "extractor"
    /\ browserOpen
    /\ f \notin pages


\* C26 (as claimed): the pages tracked by the BrowserManager never exceed
\* maxConcurrentPages under any interleaving of newPage and closePage calls;
\* a newPage call that finds the pool full waits, and fails only after its
\* timeout passed without a free slot.
C26_PoolBounded ==
  svcMode = "pool" =>
    /\ Cardinality(bmPages) <= MaxConcurrentPages
    /\ \A c \in DOMAIN bmPc : bmPc[c] = "waiting" => bmWaited[c] <= MaxPolls

\* C28: CronManager never has two scrape runs active at once; a trigger that
\* arrives while a run is active is skipped; isRunning is false again once
\* the run ended, by success or by error, so a later trigger starts a run.
C28_OneRunAtATime ==
  /\ [](svcMode = "cron" =>
          /\ Cardinality(ActiveRuns) <= 1
          /\ isRunning <=> ActiveRuns # {})
  /\ [][ svcMode = "cron" =>
           \A t \in DOMAIN cronPc :
             cronPc[t] = "idle" /\ cronPc'[t] # "idle"
             => IF ActiveRuns # {}
                THEN cronPc'[t] = "skipped"
                ELSE cronPc'[t] = "running" ]_vars

\* one run failed and ended, a trigger was skipped meanwhile, and a later
\* trigger started the run that is active now
C28_Witness ==
  /\ svcMode = "cron"
  /\ lastRunResult = "failed"
  /\ \E t, u, v \in DOMAIN cronPc :
       cronPc[t] = "done" /\ cronPc[u] = "skipped" /\ cronPc[v] = "running"


\* C29: after any sequence of recordSuccess and recordFailure calls, a
\* pattern with needsRelearning = true has a confidence below 0.3, so the
\* confidence > 0.8 override never uses a pattern flagged for relearning.
C29_FlaggedIsLow ==
  lMode = "learner" =>
    /\ \A k \in SiteIds :
         lPatterns[k].needsRelearning
         => 10 * lPatterns[k].confidence < 3 * Scale /\ ~UsesPattern(lPatterns[k])
    /\ lLast.op = "select" /\ lPatterns[LearnSite].needsRelearning => ~lLast.bypass

\* from an empty memory: one success and then the failure that flags the pattern
C29_Witness ==
  /\ lMode = "learner"
  /\ lFile = MissingFile
  /\ lLast.op = "recordFailure"
  /\ lPatterns[LearnSite].successCount = 1
  /\ lPatterns[LearnSite].needsRelearning

\* C30: recordSuccess stores a pattern with needsRelearning false and without
\* failureCount, its successCount one above the previous; recordFailure adds
\* one to failureCount, which so counts the failures since the last success.
C30_SuccessResets ==
  [][ lMode = "learner" /\ lOps' # lOps =>
        LET old == lPatterns[LearnSite]
            new == lPatterns'[LearnSite]
        IN /\ lLast'.op = "recordSuccess"
              => /\ new.exists /\ ~new.needsRelearning
                 /\ new.failureCount = 0
                 /\ new.successCount = old.successCount + 1
           /\ lLast'.op = "recordFailure" /\ old.exists
              => /\ new.failureCount = old.failureCount + 1
                 /\ new.successCount = old.successCount ]_vars

\* a success recorded for a pattern flagged for relearning cleared the flag
\* and the failure count
C30_Witness ==
  /\ lMode = "learner"
  /\ lLast.op = "recordSuccess"
  /\ lFailures >= 4
  /\ lPatterns[LearnSite].failureCount = 0
  /\ ~lPatterns[LearnSite].needsRelearning
  /\ 10 * lPatterns[LearnSite].confidence < 5 * Scale

=============================================================================
